---- MODULE Spec2Model ----
(***************************************************************************)
(* Job lifecycle of the opustools image and PDF tools: the job records,    *)
(* the task queue (at-least-once delivery), the two Celery runners         *)
(* process_image_task and process_file_task, the file store under          *)
(* MEDIA_ROOT, the retention sweep and record deletion.                    *)
(*                                                                         *)
(* Python None is the empty tuple; an optional scalar v is <<v>>.          *)
(* A path under MEDIA_ROOT is <<directory, uuid, name>>; a URL is          *)
(* <<MEDIA_URL>> followed by the path.  A file name is <<base, ext>>, what  *)
(* os.path.splitext makes of it.                                           *)
(* An error message is the tuple of the parts its f-string concatenates.   *)
(***************************************************************************)
EXTENDS Integers, Sequences, FiniteSets, TLC

\* ---------------------------------------------------------------- bounds
MaxJobs == 1
MaxRedeliveries == 1
\* the most external steps one runner body takes
MaxFailStep == 3

\* the days a date that a session counts under is followed for
MaxDays == 1
\* the longest page_ranges string parsed on its own
MaxLen == 4
\* the longest side, in pixels, of an image resized on its own
MaxSide == 4

JobIds == 1..MaxJobs
\* request.session: has_permission reads and writes only the session of the
\* request at hand, so one browser's session is followed
Sessions == {"sessionid"}

\* ------------------------------------------------------------- constants
None == <<>>
Some(v) == <<v>>
MEDIA_URL == "/media/"

STATUS_CHOICES == {"PENDING", "PROCESSING", "COMPLETED", "FAILED"}
Terminal == {"COMPLETED", "FAILED"}

\* ImageConversionJob.FORMAT_CHOICES, first components
FORMAT_CHOICES == {"JPEG", "PNG", "WEBP", "GIF", "BMP", "TIFF"}
\* ImageConversionJob.tool_type choices
IMAGE_TOOL_TYPES == {"image_compressor", "image_resizer", "image_converter"}
\* the tool types PdfToolJobView.post lets through
PDF_TOOL_TYPES == {"pdf_converter", "file_compressor", "pdf_merger", "pdf_splitter"}

\* files older than this many days are removed by the sweep
RETENTION_DAYS == 1

\* POSTs a session without a login may make on one date
UNAUTH_CONVERSION_LIMIT == 2

HTTP_202_ACCEPTED == 202
HTTP_400_BAD_REQUEST == 400
HTTP_403_FORBIDDEN == 403
HTTP_200_OK == 200
HTTP_404_NOT_FOUND == 404
HTTP_500_INTERNAL_SERVER_ERROR == 500

\* str.upper() / str.lower() on the format names that occur
Upper(s) ==
    CASE s = "png" -> "PNG" [] s = "jpeg" -> "JPEG" [] s = "jpg" -> "JPG"
      [] s = "webp" -> "WEBP" [] s = "gif" -> "GIF" [] s = "bmp" -> "BMP"
      [] s = "tiff" -> "TIFF" [] s = "docx" -> "DOCX" [] s = "xlsx" -> "XLSX"
      [] s = "pptx" -> "PPTX" [] s = "odt" -> "ODT"
      [] OTHER -> s

Lower(s) ==
    CASE s = "PNG" -> "png" [] s = "JPEG" -> "jpeg" [] s = "JPG" -> "jpg"
      [] s = "WEBP" -> "webp" [] s = "GIF" -> "gif" [] s = "BMP" -> "bmp"
      [] s = "TIFF" -> "tiff" [] s = "DOCX" -> "docx" [] s = "XLSX" -> "xlsx"
      [] s = "PPTX" -> "pptx" [] s = "ODT" -> "odt"
      [] OTHER -> s

\* the elements of a sequence
Range(s) == {s[i] : i \in 1..Len(s)}

\* ------------------------------------------------------- JSON (merge_order)
\* A merge_order value is [enc, ok, items]: enc = 0 is the Python list items;
\* enc = k > 0 with ok is the str holding the k-fold JSON encoding of that
\* list; ok = FALSE is a str that is not JSON.
PyList(items) == [enc |-> 0, ok |-> TRUE, items |-> items]
JsonText(items, k) == [enc |-> k, ok |-> TRUE, items |-> items]
NotJson == [enc |-> 1, ok |-> FALSE, items |-> <<>>]

IsStr(v) == v.enc > 0

\* json.loads(v): "TypeError" for a non-str, "JSONDecodeError" for a str that
\* is not JSON, else the decoded value
json_loads(v) ==
    IF ~IsStr(v) THEN [err |-> "TypeError", val |-> v]
    ELSE IF ~v.ok THEN [err |-> "JSONDecodeError", val |-> v]
    ELSE [err |-> "", val |-> [v EXCEPT !.enc = v.enc - 1]]

\* what `for filename in merge_order` yields: the items of a list, the
\* characters of a str (none of which is an uploaded file's name)
IterNames(v) == IF IsStr(v) THEN <<"[", "]">> ELSE v.items

\* ------------------------------------------------------------- requests
\* An uploaded image: name and what Pillow finds in it.
ImgA == [base |-> "a", ext |-> ".png", format |-> Some("PNG"), pages |-> 0]
ImgB == [base |-> "b", ext |-> ".jpg", format |-> Some("JPEG"), pages |-> 0]
\* An uploaded document: name and page count.
PdfA == [base |-> "a", ext |-> ".pdf", format |-> None, pages |-> 3]
PdfB == [base |-> "b", ext |-> ".pdf", format |-> None, pages |-> 1]

Req(kind, tool, files) ==
    [kind |-> kind, tool_type |-> tool, files |-> files,
     quality |-> None, width |-> None, height |-> None, target_format |-> None,
     compression_level |-> None, page_ranges |-> None, merge_order |-> None]

ImageReq(tool, file, q, w, h, fmt) ==
    [Req("image", tool, <<file>>) EXCEPT
        !.quality = q, !.width = w, !.height = h, !.target_format = fmt]

\* the image jobs created: a format conversion, and a record whose
\* tool_type is none of the choices
ImageRequests ==
    { ImageReq("image_converter", ImgB, None, None, None, Some("PNG")),
      ImageReq("image_rotator", ImgA, Some(80), Some(200), None, Some("WEBP")) }

Chars12_3 == <<"1", "-", "2", ",", " ", "3">>
Chars4 == <<"4">>
Chars1_4 == <<"1", ",", "4">>
Chars2to1 == <<"1", ",", "2", "-", "1">>
Chars1_x == <<"1", ",", "x">>
Chars1_1 == <<"1", ",", "1">>

\* the PDF jobs created: every tool type with parameters that let it
\* succeed, parameters that make it fail, and a record whose tool_type is
\* none of the choices
PdfRequests ==
    { [Req("pdf", "pdf_converter", <<PdfB>>) EXCEPT !.target_format = Some("docx")],
      [Req("pdf", "pdf_converter", <<PdfB>>) EXCEPT !.target_format = Some("jpg")],
      Req("pdf", "pdf_converter", <<PdfA>>),
      [Req("pdf", "file_compressor", <<PdfA, PdfB>>) EXCEPT !.compression_level = Some("low")],
      [Req("pdf", "pdf_merger", <<PdfA, PdfB>>) EXCEPT
          !.merge_order = Some(JsonText(<<"a.pdf", "missing.pdf", "b.pdf">>, 1))],
      [Req("pdf", "pdf_merger", <<PdfA, PdfB>>) EXCEPT
          !.merge_order = Some(JsonText(<<"a.pdf", "missing.pdf", "b.pdf">>, 2))],
      [Req("pdf", "pdf_splitter", <<PdfA>>) EXCEPT !.page_ranges = Some(Chars12_3)],
      [Req("pdf", "pdf_splitter", <<PdfA>>) EXCEPT !.page_ranges = Some(Chars4)],
      [Req("pdf", "pdf_rotator", <<PdfA>>) EXCEPT !.target_format = Some("docx")] }

Requests == ImageRequests \cup PdfRequests

\* more split and compress jobs: page_ranges with a valid interval before one
\* that is out of range, reversed or malformed, the same interval twice; one
\* file to compress, two files of the same name
PdfVariants ==
    { [Req("pdf", "pdf_splitter", <<PdfA>>) EXCEPT !.page_ranges = Some(Chars1_4)],
      [Req("pdf", "pdf_splitter", <<PdfA>>) EXCEPT !.page_ranges = Some(Chars2to1)],
      [Req("pdf", "pdf_splitter", <<PdfA>>) EXCEPT !.page_ranges = Some(Chars1_x)],
      [Req("pdf", "pdf_splitter", <<PdfA>>) EXCEPT !.page_ranges = Some(Chars1_1)],
      [Req("pdf", "file_compressor", <<PdfA>>) EXCEPT !.compression_level = Some("low")],
      [Req("pdf", "file_compressor", <<PdfA, PdfA>>) EXCEPT !.compression_level = Some("low")] }

\* the split and compress jobs followed through their runs
VariantRequests ==
    PdfVariants \cup
    {r \in PdfRequests : r.tool_type \in {"pdf_splitter", "file_compressor"}}

\* the jobs the lifecycle is followed with: both runners, a run that
\* succeeds, one that fails, and the tool types no branch handles
LifecycleRequests ==
    {r \in Requests :
        \/ r.kind = "image"
        \/ r.tool_type \in {"pdf_splitter", "pdf_rotator"}}

\* ImageConversionJobSerializer: tool_type is one of the model's choices
ImageViewAccepts(tool_type) == tool_type \in IMAGE_TOOL_TYPES

\* PdfToolJobView.post up to the serializer: the tool_type is one of the four
\* and at least one file came with the request
PdfViewAccepts(tool_type, nfiles) ==
    /\ tool_type \in PDF_TOOL_TYPES
    /\ nfiles > 0

\* the record could have been created by a POST to its tool's view
Submitted(job) ==
    IF job.kind = "image" THEN ImageViewAccepts(job.tool_type)
    ELSE PdfViewAccepts(job.tool_type, Len(job.uploaded_files))

\* ---------------------------------------------------------------- paths
UploadDir(kind) == IF kind = "image" THEN "image_tool_uploads" ELSE "pdf_tool_uploads"
ProcessedDir(kind) == IF kind = "image" THEN "image_tool_processed" ELSE "pdf_tool_processed"

\* the uuid of the i-th uploaded file of job j
FileId(j, i) == 10 * j + i

\* image_uploaded_file_path / pdf_uploaded_file_path
uploaded_file_path(kind, fid, filename) == <<UploadDir(kind), fid, filename>>

\* variant: one output directory for all jobs of a tool
OutputPathShared(kind, j, name) == <<ProcessedDir(kind), 0, name>>

\* variant: outputs are written into the uploads directory
OutputPathInUploads(kind, j, name) == <<UploadDir(kind), j, name>>

\* os.path.join(<kind>_tool_processed, str(job.id), name)
OutputPath(kind, j, name) == <<ProcessedDir(kind), j, name>>

\* os.path.join(settings.MEDIA_URL, output_dir, name)
DownloadUrl(path) == <<MEDIA_URL>> \o path

\* a file name as one string
NameStr(name) == name[1] \o name[2]

\* str(path) as it appears in an exception text
PathStr(p) == p[1] \o "/" \o ToString(p[2]) \o "/" \o NameStr(p[3])

\* --------------------------------------------------------------- state
VARIABLES
    jobs,          \* the two job tables: job id -> record, or None
    task,          \* job id -> the arguments of the task message, or None
    pending,       \* job id -> copies of the task message not yet delivered
    redeliveries,  \* duplicate deliveries made so far by the queue
    run,           \* job id -> the live runner invocation (its in-memory job), or None
    last,          \* job id -> what the latest invocation did, once it has returned
    procWrites,    \* job id -> number of saves of status PROCESSING so far
    files,         \* path under MEDIA_ROOT -> the file (age in days, content)
    call,          \* a function applied on its own: its arguments and its result, or None
    session,       \* session id -> session key -> days ago -> submissions counted
    response       \* what the latest POST was and how it was answered, or None

vars == <<jobs, task, pending, redeliveries, run, last, procWrites, files,
          call, session, response>>

\* the state of the two submission endpoints
web == <<session, response>>

Exists(j) == jobs[j] # None
Job(j) == jobs[j][1]
Live(j) == run[j] # None
Returned(j) == last[j] # None

\* ----------------------------------------------------------- file store
\* content of a file: image format, page count, archive entries
Data(format, pages, entries) == [format |-> format, pages |-> pages, entries |-> entries]
Garbage == Data(None, 0, <<>>)

FileExists(fs, path) == path \in DOMAIN fs

\* open(path, 'wb') and write: the file is new or overwritten, modified now
WriteFile(fs, path, data) ==
    [q \in DOMAIN fs \cup {path} |->
        IF q = path THEN [age |-> 0, data |-> data] ELSE fs[q]]

\* os.remove(path) of an existing file
RemoveFile(fs, path) == [q \in DOMAIN fs \ {path} |-> fs[q]]

RemoveFiles(fs, paths) == [q \in DOMAIN fs \ paths |-> fs[q]]

\* the files of a job's processed-output directory
OutputFiles(fs, kind, j) == {q \in DOMAIN fs : q[1] = ProcessedDir(kind) /\ q[2] = j}

\* -------------------------------------------------------- job records
Exc(type, text) == [type |-> type, text |-> text]

\* the exception types raised in the runners; each derives from Exception
ExceptionTypes ==
    {"DoesNotExist", "FileNotFoundError", "ValueError", "AttributeError",
     "TypeError", "RuntimeError", "OSError", "PdfError",
     "UnidentifiedImageError", "JSONDecodeError"}

\* the first except clause at the end of the runner that matches an
\* exception of this type (None: no clause does)
CatchClause(type) ==
    IF type = "DoesNotExist" THEN Some("DoesNotExist")
    ELSE IF type = "FileNotFoundError" THEN Some("FileNotFoundError")
    ELSE IF type \in ExceptionTypes THEN Some("Exception")
    ELSE None

\* what one run of a runner body yields: the in-memory job, whether it was
\* saved, the file store, the exception raised (None if none) and whether
\* that exception left the runner uncaught
Result(job, saved, fs, raised) ==
    [job |-> job, saved |-> saved, fs |-> fs, raised |-> raised, escaped |-> FALSE]

\* an exception no except clause matches propagates out of the task
Uncaught(job, fs, e) == [Result(job, FALSE, fs, Some(e)) EXCEPT !.escaped = TRUE]

\* variant: the final job.save() is left out
CompletedUnsaved(job, fs, path) ==
    Result([job EXCEPT !.output_url = DownloadUrl(path), !.status = "COMPLETED"],
           FALSE, fs, None)

\* job.output_url = ...; job.status = 'COMPLETED'; job.save()
Completed(job, fs, path) ==
    Result([job EXCEPT !.output_url = DownloadUrl(path), !.status = "COMPLETED"],
           TRUE, fs, None)

\* job.status = 'FAILED'; job.error_message = ...; job.save(); return
FailedReturn(job, fs, message) ==
    Result([job EXCEPT !.status = "FAILED", !.error_message = message], TRUE, fs, None)

FileNotFoundPrefix(kind) ==
    IF kind = "image"
    THEN "Processing failed: Source file not found or accessible. Error: "
    ELSE "Processing failed: Source file not found. Error: "

\* variant: the except clauses store a fixed message
HandleExceptionGeneric(job, fs, e) ==
    Result([job EXCEPT !.status = "FAILED", !.error_message = <<"Processing failed.">>],
           TRUE, fs, Some(e))

\* the except clauses at the end of process_image_task / process_file_task
HandleException(job, fs, e) ==
    LET clause == CatchClause(e.type) IN
    IF clause = None THEN Uncaught(job, fs, e)
    ELSE IF clause[1] = "FileNotFoundError"
    THEN Result([job EXCEPT !.status = "FAILED",
                            !.error_message = <<FileNotFoundPrefix(job.kind), e.text>>],
                TRUE, fs, Some(e))
    ELSE Result([job EXCEPT !.status = "FAILED",
                            !.error_message =
                                <<"Processing failed due to an internal error: ", e.text>>],
                TRUE, fs, Some(e))

Raise(job, fs, type, text) == HandleException(job, fs, Exc(type, text))

\* What the environment decides in one invocation: which external step
\* fails (0: none) and how: the tool raises ("error"), raises and leaves a
\* partly written file ("partial"), or its binary is not installed ("missing").
NoFailure == [failAt |-> 0, how |-> "error"]
Envs ==
    {NoFailure} \cup [failAt : 1..MaxFailStep, how : {"error", "partial"}]
        \cup {[failAt |-> 1, how |-> "missing"]}

\* the file store after an external step that was to write `path` failed
AfterFailure(fs, path, env) ==
    IF env.how = "partial" THEN WriteFile(fs, path, Garbage) ELSE fs

\* ------------------------------------------------- process_image_task
\* variant: target_format is applied by the image_converter tool only
ImageBodyByTool(job, args, fs, env) ==
    LET src == args.file_path
        original_format == fs[src].data.format
        wanted == IF args.tool_type = "image_converter" /\ args.target_format # None
                  THEN Upper(args.target_format[1])
                  ELSE IF original_format = None THEN "JPEG" ELSE original_format[1]
        output_format == IF Upper(wanted) \notin FORMAT_CHOICES
                         THEN "JPEG" ELSE Upper(wanted)
        out == OutputPath("image", job.id,
                          <<"processed_" \o src[3][1], "." \o Lower(output_format)>>)
    IN  IF ~FileExists(fs, src)
        THEN Raise(job, fs, "FileNotFoundError",
                   "Source file does not exist at " \o PathStr(src))
        ELSE IF original_format = None
        THEN Raise(job, fs, "UnidentifiedImageError",
                   "cannot identify image file " \o PathStr(src))
        ELSE IF env.failAt = 1
        THEN Raise(job, AfterFailure(fs, out, env),
                   "OSError", "cannot write image as " \o output_format)
        ELSE Completed(job, WriteFile(fs, out, Data(Some(output_format), 0, <<>>)), out)

\* the body of process_image_task after the job was loaded and saved as
\* PROCESSING; args are the task's arguments
ImageBody(job, args, fs, env) ==
    LET src == args.file_path IN
    IF ~FileExists(fs, src)
    THEN Raise(job, fs, "FileNotFoundError",
               "Source file does not exist at " \o PathStr(src))
    ELSE IF fs[src].data.format = None
    THEN Raise(job, fs, "UnidentifiedImageError",
               "cannot identify image file " \o PathStr(src))
    ELSE
    LET original_format == fs[src].data.format[1]
        wanted == IF args.target_format # None
                  THEN Upper(args.target_format[1]) ELSE original_format
        output_format == IF Upper(wanted) \notin FORMAT_CHOICES
                         THEN "JPEG" ELSE Upper(wanted)
        base_filename == src[3][1]
        output_filename == <<"processed_" \o base_filename, "." \o Lower(output_format)>>
        out == OutputPath("image", job.id, output_filename)
    IN  IF env.failAt = 1
        THEN Raise(job, AfterFailure(fs, out, env),
                   "OSError", "cannot write image as " \o output_format)
        ELSE Completed(job, WriteFile(fs, out, Data(Some(output_format), 0, <<>>)), out)

\* ------------------------------------------------------------- resizing
\* int(a * (b / c)) for positive integers: the float product, truncated.
\* For the sides that occur the float result is the exact quotient's floor.
TruncatedScale(a, b, c) == (a * b) \div c

\* process_image_task, resizing: the size the image is resized to (its own
\* size with neither width nor height)
ResizedSize(original_width, original_height, width, height) ==
    IF width # None /\ height # None
    THEN <<width[1], height[1]>>
    ELSE IF width # None
    THEN <<width[1], TruncatedScale(original_height, width[1], original_width)>>
    ELSE IF height # None
    THEN <<TruncatedScale(original_width, height[1], original_height), height[1]>>
    ELSE <<original_width, original_height>>

\* ------------------------------------------------- page_ranges parsing
\* A page_ranges string is the sequence of its characters.
Digits == {"0", "1", "2", "3", "4", "5", "6", "7", "8", "9"}

DigitVal(c) ==
    CASE c = "0" -> 0 [] c = "1" -> 1 [] c = "2" -> 2 [] c = "3" -> 3 [] c = "4" -> 4
      [] c = "5" -> 5 [] c = "6" -> 6 [] c = "7" -> 7 [] c = "8" -> 8 [] c = "9" -> 9

RECURSIVE Join(_)
\* the str of a character sequence
Join(cs) == IF cs = <<>> THEN "" ELSE cs[1] \o Join(Tail(cs))

RECURSIVE LStrip(_)
LStrip(cs) == IF cs # <<>> /\ cs[1] = " " THEN LStrip(Tail(cs)) ELSE cs

RECURSIVE RStrip(_)
RStrip(cs) ==
    IF cs # <<>> /\ cs[Len(cs)] = " " THEN RStrip(SubSeq(cs, 1, Len(cs) - 1)) ELSE cs

\* str.strip()
Strip(cs) == RStrip(LStrip(cs))

\* str.count(c)
Count(cs, c) == Cardinality({i \in 1..Len(cs) : cs[i] = c})

RECURSIVE SplitOn(_, _)
\* str.split(c)
SplitOn(cs, c) ==
    IF \A i \in 1..Len(cs) : cs[i] # c THEN <<cs>>
    ELSE CHOOSE pieces \in
            { <<SubSeq(cs, 1, k - 1)>> \o SplitOn(SubSeq(cs, k + 1, Len(cs)), c) :
                k \in {i \in 1..Len(cs) :
                          cs[i] = c /\ \A h \in 1..(i - 1) : cs[h] # c} } : TRUE

RECURSIVE DigitsVal(_)
DigitsVal(cs) ==
    IF cs = <<>> THEN 0 ELSE 10 * DigitsVal(SubSeq(cs, 1, Len(cs) - 1)) + DigitVal(cs[Len(cs)])

IsDigit(c) == c \in Digits

\* the digits of an integer literal: single underscores may stand between them
IsDigitPart(d) ==
    /\ d # <<>>
    /\ \A i \in 1..Len(d) : d[i] \in Digits \cup {"_"}
    /\ d[1] \in Digits /\ d[Len(d)] \in Digits
    /\ \A i \in 1..(Len(d) - 1) : ~(d[i] = "_" /\ d[i + 1] = "_")

\* int(s) succeeds: optional whitespace around an optional sign and digits
IsInt(cs) ==
    LET t == Strip(cs)
        d == IF t # <<>> /\ t[1] \in {"+", "-"} THEN Tail(t) ELSE t
    IN IsDigitPart(d)

\* int(s)
IntOf(cs) ==
    LET t == Strip(cs)
    IN IF t[1] = "-" THEN 0 - DigitsVal(SelectSeq(Tail(t), IsDigit))
       ELSE IF t[1] = "+" THEN DigitsVal(SelectSeq(Tail(t), IsDigit))
       ELSE DigitsVal(SelectSeq(t, IsDigit))

IntError(cs) == "invalid literal for int() with base 10: '" \o Join(cs) \o "'"

Parsed(ranges) == [err |-> "", ranges |-> ranges]
ParseError(text) == [err |-> text, ranges |-> <<>>]

\* the checks on a parsed interval start-end
CheckRange(start, end, num_pages) ==
    IF start > end
    THEN ParseError("Start page " \o ToString(start)
                    \o " cannot be greater than end page " \o ToString(end))
    ELSE IF start < 1 \/ end > num_pages
    THEN ParseError("Page range " \o ToString(start) \o "-" \o ToString(end)
                    \o " is out of bounds. PDF has " \o ToString(num_pages) \o " pages.")
    ELSE Parsed(<<<<start, end>>>>)

\* the branch of a token with exactly one '-', split at it
ParseRange(part, start_str, end_str, num_pages) ==
    IF Strip(start_str) = <<>> \/ Strip(end_str) = <<>>
    THEN ParseError("Invalid range format: '" \o Join(part) \o "'")
    ELSE IF ~IsInt(start_str) THEN ParseError(IntError(start_str))
    ELSE IF ~IsInt(end_str) THEN ParseError(IntError(end_str))
    ELSE CheckRange(IntOf(start_str), IntOf(end_str), num_pages)

\* the check on a single page number
CheckPage(page_number, num_pages) ==
    IF page_number < 1 \/ page_number > num_pages
    THEN ParseError("Page " \o ToString(page_number) \o " is out of bounds. PDF has "
                    \o ToString(num_pages) \o " pages.")
    ELSE Parsed(<<<<page_number, page_number>>>>)

\* one token of page_ranges, stripped: nothing for an empty token (the
\* loop's continue), else the interval <<start, end>> it stands for, or the
\* ValueError it raises
ParsePart(part, num_pages) ==
    IF part = <<>> THEN Parsed(<<>>)
    ELSE IF Count(part, "-") = 1
    THEN CHOOSE r \in {ParseRange(part, halves[1], halves[2], num_pages) :
                          halves \in {SplitOn(part, "-")}} : TRUE
    ELSE IF ~IsInt(part) THEN ParseError(IntError(part))
    ELSE CheckPage(IntOf(part), num_pages)

\* one token of page_ranges: part = part.strip(), then the above
ParseToken(token, num_pages) ==
    CHOOSE r \in {ParsePart(part, num_pages) : part \in {Strip(token)}} : TRUE

\* variant: a token that raises ends the loop and the intervals before it
\* are kept
PrependValid(r, rest) ==
    IF r.err # "" THEN r
    ELSE IF rest.err # "" THEN Parsed(r.ranges)
    ELSE Parsed(r.ranges \o rest.ranges)

\* the loop from one token on, given what the token and what the rest of
\* the loop yield: the first ValueError ends the loop
Prepend(r, rest) ==
    IF r.err # "" THEN r
    ELSE IF rest.err # "" THEN rest
    ELSE Parsed(r.ranges \o rest.ranges)

RECURSIVE ParseParts(_, _)
\* the loop over page_ranges_str.split(',')
ParseParts(parts, num_pages) ==
    IF parts = <<>> THEN Parsed(<<>>)
    ELSE CHOOSE x \in {Prepend(r, rest) :
                          r \in {ParseToken(parts[1], num_pages)},
                          rest \in {ParseParts(Tail(parts), num_pages)}} : TRUE

ParsePageRanges(page_ranges_str, num_pages) ==
    CHOOSE r \in {ParseParts(parts, num_pages) :
                     parts \in {SplitOn(page_ranges_str, ",")}} : TRUE

\* ---------------------------------------------------- process_file_task
\* job.status = 'FAILED'; job.error_message = f"<prefix>{e}"; job.save();
\* return, in an except clause inside the body
CaughtInline(job, fs, prefix, e) ==
    Result([job EXCEPT !.status = "FAILED", !.error_message = <<prefix, e.text>>],
           TRUE, fs, Some(e))

\* an external tool reading the PDF at src in step `step`: the exception it
\* raises there (None if it succeeds)
ToolFailure(fs, src, step, env, what) ==
    IF fs[src].data.pages = 0
    THEN Some(Exc("PdfError", what \o ": not a readable PDF: " \o PathStr(src)))
    ELSE IF env.failAt = step
    THEN IF env.how = "missing"
         THEN Some(Exc("FileNotFoundError",
                       "[Errno 2] No such file or directory: '" \o what \o "'"))
         ELSE Some(Exc("RuntimeError", what \o " failed"))
    ELSE None

PagePaths(job, n) ==
    [i \in 1..n |-> OutputPath("pdf", job.id, <<"page_" \o ToString(i), ".jpg", "images">>)]

RECURSIVE WriteAll(_, _, _)
WriteAll(fs, paths, data) ==
    IF paths = <<>> THEN fs
    ELSE WriteAll(WriteFile(fs, paths[1], data), Tail(paths), data)

\* the files of the job's images/ folder
ImagesFolder(fs, job) ==
    {q \in OutputFiles(fs, "pdf", job.id) : Len(q[3]) = 3}

\* a set of file names as the sequence an archive lists them in
RECURSIVE SetToSeq(_)
SetToSeq(S) == IF S = {} THEN <<>>
               ELSE LET x == CHOOSE x \in S : TRUE IN <<x>> \o SetToSeq(S \ {x})

\* tool_type == 'pdf_converter'
ConvertBody(job, srcs, fs, env) ==
    IF srcs = <<>>
    THEN Raise(job, fs, "ValueError", "No file provided for PDF conversion.")
    ELSE
    LET src == srcs[1] IN
    IF ~FileExists(fs, src)
    THEN Raise(job, fs, "FileNotFoundError",
               "Source file does not exist at " \o PathStr(src))
    ELSE IF job.target_format = None
    THEN Raise(job, fs, "AttributeError", "'NoneType' object has no attribute 'lower'")
    ELSE
    LET target_format == job.target_format[1]
        base_filename == src[3][1]
        pages == fs[src].data.pages
        out == OutputPath("pdf", job.id,
                          <<"converted_" \o base_filename, "." \o Lower(target_format)>>)
        zip == OutputPath("pdf", job.id, <<"converted_" \o base_filename, ".zip">>)
        f1 == ToolFailure(fs, src, 1, env, "convert")
    IN
    IF Upper(target_format) \in {"DOCX", "XLSX"}
    THEN IF f1 # None
         THEN HandleException(job, AfterFailure(fs, out, env), f1[1])
         ELSE Completed(job, WriteFile(fs, out, Data(Some(Upper(target_format)), pages, <<>>)),
                        out)
    ELSE IF Upper(target_format) = "PPTX"
    THEN LET temp == OutputPath("pdf", job.id, <<"temp_uuid", ".jpg">>) IN
         IF f1 # None THEN HandleException(job, fs, f1[1])
         ELSE IF env.failAt = 2
         THEN Raise(job, WriteFile(fs, temp, Data(Some("JPEG"), 1, <<>>)),
                    "RuntimeError", "add_picture failed")
         ELSE IF env.failAt = 3
         THEN Raise(job, AfterFailure(fs, out, env), "OSError", "cannot save presentation")
         ELSE Completed(job, WriteFile(fs, out, Data(Some("PPTX"), pages, <<>>)), out)
    ELSE IF Upper(target_format) = "JPG"
    THEN IF f1 # None THEN HandleException(job, fs, f1[1])
         ELSE IF env.failAt = 2
         THEN Raise(job, WriteAll(fs, SubSeq(PagePaths(job, pages), 1, 1),
                                  Data(Some("JPEG"), 1, <<>>)),
                    "OSError", "cannot write page image")
         ELSE LET saved == WriteAll(fs, PagePaths(job, pages), Data(Some("JPEG"), 1, <<>>))
                  folder == ImagesFolder(saved, job)
              IN IF env.failAt = 3
                 THEN Raise(job, AfterFailure(saved, zip, env), "OSError", "make_archive failed")
                 ELSE Completed(job,
                                RemoveFiles(WriteFile(saved, zip,
                                                Data(Some("ZIP"), 0,
                                                     SetToSeq({NameStr(q[3]) : q \in folder}))),
                                            folder),
                                zip)
    ELSE Raise(job, fs, "ValueError", "Unsupported target format: " \o target_format)

RECURSIVE RemoveEach(_, _, _, _)
\* for file_path in paths: os.remove(file_path); then the job completes with
\* the archive
RemoveEach(job, fs, paths, zip) ==
    IF paths = <<>> THEN Completed(job, fs, zip)
    ELSE IF ~FileExists(fs, paths[1])
    THEN Raise(job, fs, "FileNotFoundError",
               "[Errno 2] No such file or directory: '" \o PathStr(paths[1]) \o "'")
    ELSE RemoveEach(job, RemoveFile(fs, paths[1]), Tail(paths), zip)

\* variant: the archived files are left in place
ZipAndKeep(job, fs, paths, zip, step, env) ==
    IF env.failAt = step
    THEN Raise(job, AfterFailure(fs, zip, env), "OSError", "cannot write archive")
    ELSE IF \E i \in 1..Len(paths) : ~FileExists(fs, paths[i])
    THEN Raise(job, WriteFile(fs, zip, Garbage), "FileNotFoundError",
               "[Errno 2] No such file or directory")
    ELSE Completed(job,
                   WriteFile(fs, zip,
                             Data(Some("ZIP"), 0,
                                  [i \in 1..Len(paths) |-> NameStr(paths[i][3])])),
                   zip)

\* zipfile.ZipFile(zip, 'w') with one entry per path, then the removal of
\* the archived files
ZipAndRemove(job, fs, paths, zip, step, env) ==
    IF env.failAt = step
    THEN Raise(job, AfterFailure(fs, zip, env), "OSError", "cannot write archive")
    ELSE IF \E i \in 1..Len(paths) : ~FileExists(fs, paths[i])
    THEN Raise(job, WriteFile(fs, zip, Garbage), "FileNotFoundError",
               "[Errno 2] No such file or directory")
    ELSE RemoveEach(job,
                    WriteFile(fs, zip,
                              Data(Some("ZIP"), 0,
                                   [i \in 1..Len(paths) |-> NameStr(paths[i][3])])),
                    paths, zip)

RECURSIVE CompressLoop(_, _, _, _, _, _)
\* the loop over source_files_abs_paths from the i-th file on, then the
\* archive or the single result
CompressLoop(job, srcs, i, fs, env, compressed_file_paths) ==
    IF i > Len(srcs)
    THEN IF Len(compressed_file_paths) > 1
         THEN ZipAndRemove(job, fs, compressed_file_paths,
                           OutputPath("pdf", job.id, <<"compressed_files", ".zip">>),
                           Len(srcs) + 1, env)
         ELSE Completed(job, fs, compressed_file_paths[1])
    ELSE
    LET src == srcs[i]
        out == OutputPath("pdf", job.id, <<"compressed_" \o src[3][1], ".pdf">>)
    IN
    IF Lower(src[3][2]) # ".pdf"
    THEN Raise(job, fs, "ValueError", "File " \o PathStr(src) \o " is not a PDF.")
    ELSE IF ~FileExists(fs, src)
    THEN Raise(job, fs, "FileNotFoundError",
               "Source file does not exist: " \o PathStr(src))
    ELSE IF env.failAt = i /\ env.how = "missing"
    THEN Raise(job, fs, "FileNotFoundError", "[Errno 2] No such file or directory: 'gs'")
    ELSE IF fs[src].data.pages = 0 \/ env.failAt = i
    THEN Raise(job, AfterFailure(fs, out, env), "RuntimeError",
               "PDF compression failed: gs: error reading " \o PathStr(src))
    ELSE CompressLoop(job, srcs, i + 1,
                      WriteFile(fs, out, Data(Some("PDF"), fs[src].data.pages, <<>>)),
                      env, Append(compressed_file_paths, out))

\* tool_type == 'file_compressor'
CompressBody(job, srcs, fs, env) ==
    IF srcs = <<>>
    THEN Raise(job, fs, "ValueError", "No files provided for PDF compression.")
    ELSE IF job.compression_level = None
    THEN Raise(job, fs, "ValueError", "No compression level specified for the job.")
    ELSE CompressLoop(job, srcs, 1, fs, env, <<>>)

\* file_path_map[filename]: the last source path with that basename
MappedPath(srcs, filename) ==
    srcs[CHOOSE i \in 1..Len(srcs) :
            /\ NameStr(srcs[i][3]) = filename
            /\ \A k \in (i + 1)..Len(srcs) : NameStr(srcs[k][3]) # filename]

\* the source paths pdf_merger.append is called with, in order: the names
\* of merge_order that are keys of file_path_map
RECURSIVE MergeInputs(_, _)
MergeInputs(srcs, names) ==
    IF names = <<>> THEN <<>>
    ELSE IF \E i \in 1..Len(srcs) : NameStr(srcs[i][3]) = names[1]
    THEN <<MappedPath(srcs, names[1])>> \o MergeInputs(srcs, Tail(names))
    ELSE MergeInputs(srcs, Tail(names))

RECURSIVE SumPages(_, _)
SumPages(fs, paths) ==
    IF paths = <<>> THEN 0 ELSE fs[paths[1]].data.pages + SumPages(fs, Tail(paths))

\* tool_type == 'pdf_merger'
MergeBody(job, srcs, fs, env) ==
    IF Len(srcs) < 2
    THEN Raise(job, fs, "ValueError", "Merging requires at least two PDF files.")
    ELSE IF job.merge_order = None
            \/ (~IsStr(job.merge_order[1]) /\ job.merge_order[1].items = <<>>)
    THEN Raise(job, fs, "ValueError", "Merge order is required for PDF merging jobs.")
    ELSE
    LET loaded == json_loads(job.merge_order[1]) IN
    IF loaded.err = "JSONDecodeError"
    THEN CaughtInline(job, fs, "Invalid merge_order format: ",
                      Exc("JSONDecodeError", "Expecting value: line 1 column 1 (char 0)"))
    ELSE IF loaded.err = "TypeError"
    THEN Raise(job, fs, "TypeError",
               "the JSON object must be str, bytes or bytearray, not list")
    ELSE
    LET inputs == MergeInputs(srcs, IterNames(loaded.val))
        out == OutputPath("pdf", job.id, <<"merged_document", ".pdf">>)
    IN
    IF \E i \in 1..Len(inputs) : ~FileExists(fs, inputs[i])
    THEN Raise(job, fs, "FileNotFoundError", "[Errno 2] No such file or directory")
    ELSE IF \E i \in 1..Len(inputs) : fs[inputs[i]].data.pages = 0
    THEN Raise(job, fs, "PdfError", "not a readable PDF")
    ELSE IF env.failAt = 1 /\ inputs # <<>>
    THEN Raise(job, fs, "RuntimeError", "append failed")
    ELSE IF env.failAt = 2
    THEN Raise(job, AfterFailure(fs, out, env), "OSError", "cannot write merged document")
    ELSE Completed(job,
                   WriteFile(fs, out,
                             Data(Some("PDF"), SumPages(fs, inputs),
                                  [i \in 1..Len(inputs) |-> NameStr(inputs[i][3])])),
                   out)

\* the name of the file one interval is written to
SplitName(base_filename, start, end) ==
    IF start = end
    THEN <<base_filename \o "_page_" \o ToString(start), ".pdf">>
    ELSE <<base_filename \o "_pages_" \o ToString(start) \o "-" \o ToString(end), ".pdf">>

RECURSIVE WriteRanges(_, _, _)
\* the loop over parsed_ranges: one PDF per interval, holding its pages
WriteRanges(fs, paths, ranges) ==
    IF paths = <<>> THEN fs
    ELSE WriteRanges(WriteFile(fs, paths[1],
                               Data(Some("PDF"), ranges[1][2] - ranges[1][1] + 1, <<>>)),
                     Tail(paths), Tail(ranges))

\* tool_type == 'pdf_splitter'
SplitBody(job, srcs, fs, env) ==
    IF Len(srcs) # 1
    THEN FailedReturn(job, fs, <<"Splitting requires exactly one PDF file.">>)
    ELSE
    LET src == srcs[1] IN
    IF ~FileExists(fs, src)
    THEN FailedReturn(job, fs, <<"Source file does not exist at ", PathStr(src)>>)
    ELSE IF job.page_ranges = None \/ job.page_ranges[1] = <<>>
    THEN FailedReturn(job, fs, <<"Page ranges are required for PDF splitting jobs.">>)
    ELSE
    LET base_filename == src[3][1]
        num_pages == fs[src].data.pages
        internal == "Processing failed due to an internal error: "
    IN
    IF num_pages = 0
    THEN CaughtInline(job, fs, internal, Exc("PdfError", "not a readable PDF"))
    ELSE
    LET parsed == ParsePageRanges(job.page_ranges[1], num_pages) IN
    IF parsed.err # ""
    THEN CaughtInline(job, fs, "Invalid page range format: ",
                      Exc("ValueError", parsed.err))
    ELSE
    LET split_pdf_paths ==
            [i \in 1..Len(parsed.ranges) |->
                OutputPath("pdf", job.id,
                           SplitName(base_filename, parsed.ranges[i][1], parsed.ranges[i][2]))]
        zip == OutputPath("pdf", job.id, <<"split_" \o base_filename, ".zip">>)
    IN
    IF env.failAt = 1 /\ split_pdf_paths # <<>>
    THEN CaughtInline(job, AfterFailure(fs, split_pdf_paths[1], env), internal,
                      Exc("OSError", "cannot write " \o PathStr(split_pdf_paths[1])))
    ELSE ZipAndRemove(job, WriteRanges(fs, split_pdf_paths, parsed.ranges),
                      split_pdf_paths, zip, 2, env)

\* the body of process_file_task after the job was loaded and saved as
\* PROCESSING: the dispatch on tool_type; no branch for any other value
PdfBody(job, fs, env) ==
    LET source_files_abs_paths == job.uploaded_files IN
    IF job.tool_type = "pdf_converter"
    THEN ConvertBody(job, source_files_abs_paths, fs, env)
    ELSE IF job.tool_type = "file_compressor"
    THEN CompressBody(job, source_files_abs_paths, fs, env)
    ELSE IF job.tool_type = "pdf_merger"
    THEN MergeBody(job, source_files_abs_paths, fs, env)
    ELSE IF job.tool_type = "pdf_splitter"
    THEN SplitBody(job, source_files_abs_paths, fs, env)
    ELSE Result(job, FALSE, fs, None)

\* --------------------------------------------------------------- actions
NewJob(j, req) ==
    [id |-> j, kind |-> req.kind, tool_type |-> req.tool_type,
     quality |-> req.quality, width |-> req.width, height |-> req.height,
     target_format |-> req.target_format,
     compression_level |-> req.compression_level,
     page_ranges |-> req.page_ranges,
     merge_order |-> IF req.merge_order = None THEN None
                     ELSE Some(json_loads(req.merge_order[1]).val),
     uploaded_files |->
         [i \in 1..Len(req.files) |->
             uploaded_file_path(req.kind, FileId(j, i),
                                <<req.files[i].base, req.files[i].ext>>)],
     status |-> "PENDING", output_url |-> None, error_message |-> None]

\* process_image_task.delay(...) / process_file_task.delay(job_id=job.id)
TaskArgs(job) ==
    [job_id |-> job.id,
     file_path |-> IF job.kind = "image" THEN job.uploaded_files[1] ELSE <<>>,
     tool_type |-> job.tool_type, quality |-> job.quality, width |-> job.width,
     height |-> job.height, target_format |-> job.target_format]

\* the FileFields' storage: each uploaded file is written under its path
StoreUploads(fs, job, req) ==
    LET ups == Range(job.uploaded_files)
    IN [q \in DOMAIN fs \cup ups |->
           IF q \in ups
           THEN [age |-> 0,
                 data |-> LET f == req.files[CHOOSE i \in 1..Len(req.files) :
                                        job.uploaded_files[i] = q]
                          IN Data(f.format, f.pages, <<>>)]
           ELSE fs[q]]

\* variant: the job id is handed to the queue before the uploads are stored
EnqueueBeforeUploads(j, req) ==
    LET job == NewJob(j, req)
    IN /\ jobs' = [jobs EXCEPT ![j] = Some(job)]
       /\ files' = files
       /\ task' = [task EXCEPT ![j] = Some(TaskArgs(job))]
       /\ pending' = [pending EXCEPT ![j] = 1]

\* serializer.save() and <task>.delay(...): the uploaded files and the job
\* record in PENDING are persisted, and the job id is handed to the queue
SaveAndEnqueue(j, req) ==
    LET job == NewJob(j, req)
    IN /\ jobs' = [jobs EXCEPT ![j] = Some(job)]
       /\ files' = StoreUploads(files, job, req)
       /\ task' = [task EXCEPT ![j] = Some(TaskArgs(job))]
       /\ pending' = [pending EXCEPT ![j] = 1]

\* the next primary key
NextId(j) ==
    /\ task[j] = None
    /\ \A i \in 1..(j - 1) : task[i] # None

\* PdfToolJobSerializer.create: a merge_order that is a str is decoded, and
\* one that is not JSON is a ValidationError
CreateRaises(req) ==
    /\ req.merge_order # None
    /\ json_loads(req.merge_order[1]).err # ""

\* A job row and its task message come to be, through the serializer or
\* through the ORM.
CreateJob(j, req) ==
    /\ NextId(j)
    /\ ~CreateRaises(req)
    /\ SaveAndEnqueue(j, req)
    /\ UNCHANGED <<redeliveries, run, last, procWrites>>
    /\ UNCHANGED <<web, call>>

\* ------------------------------------------------------------ submission
\* dict.get(key, default)
Get(d, key, default) == IF key \in DOMAIN d THEN d[key] ELSE default

\* d[key] = value
Put(d, key, value) ==
    [k \in DOMAIN d \cup {key} |-> IF k = key THEN value ELSE d[k]]

\* variant: both permission classes count under one key
SessionKeyShared(kind) == "conversion_counts"

\* the session key each app's permission class counts under
SessionKey(kind) ==
    IF kind = "image" THEN "conversion_counts" ELSE "pdf_conversion_counts"

\* datetime.date.today().isoformat(): a date is named by how many days ago
\* it is, so today's key is 0
today_str == 0

\* variant: the limit is passed only by a count above it
has_permission_above(sess, kind, is_authenticated) ==
    IF is_authenticated THEN [allowed |-> TRUE, session |-> sess]
    ELSE LET conversion_counts == Get(sess, SessionKey(kind), <<>>)
             current_day_count == Get(conversion_counts, today_str, 0)
         IN IF current_day_count > UNAUTH_CONVERSION_LIMIT
            THEN [allowed |-> FALSE, session |-> sess]
            ELSE [allowed |-> TRUE,
                  session |-> Put(sess, SessionKey(kind),
                                  Put(conversion_counts, today_str,
                                      current_day_count + 1))]

\* HasConversionAllowance.has_permission for a POST: whether the request is
\* let through, and the session it leaves
has_permission(sess, kind, is_authenticated) ==
    IF is_authenticated THEN [allowed |-> TRUE, session |-> sess]
    ELSE LET conversion_counts == Get(sess, SessionKey(kind), <<>>)
             current_day_count == Get(conversion_counts, today_str, 0)
         IN IF current_day_count >= UNAUTH_CONVERSION_LIMIT
            THEN [allowed |-> FALSE, session |-> sess]
            ELSE [allowed |-> TRUE,
                  session |-> Put(sess, SessionKey(kind),
                                  Put(conversion_counts, today_str,
                                      current_day_count + 1))]

\* `not v` for an optional number, for an optional str
NotNum(v) == v = None \/ v[1] = 0
NotStr(v) == v = None \/ v[1] = ""

\* ImageConversionView.post: the dict handed to the serializer
ImageData(req) ==
    [file |-> IF req.files = <<>> THEN None ELSE Some(req.files[1]),
     tool_type |-> req.tool_type, quality |-> req.quality,
     width |-> req.width, height |-> req.height,
     target_format |-> req.target_format]

\* ImageConversionJobSerializer field validation: uploaded_file is a required
\* FileField, tool_type and target_format are choices
ImageFieldsValid(data) ==
    /\ "uploaded_file" \in DOMAIN data
    /\ data["uploaded_file"] # None
    /\ ImageViewAccepts(data.tool_type)
    /\ data.target_format # None => data.target_format[1] \in FORMAT_CHOICES

\* ImageConversionJobSerializer.validate
ImageValidate(data) ==
    IF data.tool_type = "image_resizer"
    THEN ~(NotNum(data.width) /\ NotNum(data.height))
    ELSE IF data.tool_type = "image_compressor"
    THEN data.quality # None => data.quality[1] \in 0..100
    ELSE IF data.tool_type = "image_converter"
    THEN ~NotStr(data.target_format)
    ELSE FALSE

\* serializer.is_valid() in ImageConversionView.post
ImageIsValid(req) ==
    \E data \in {ImageData(req)} : ImageFieldsValid(data) /\ ImageValidate(data)

\* PdfToolJob.CONVERSION_FORMAT_CHOICES / COMPRESSION_LEVEL_CHOICES
CONVERSION_FORMAT_CHOICES == {"docx", "xlsx", "pptx", "jpg", "png", "odt"}
COMPRESSION_LEVEL_CHOICES == {"low", "medium", "high"}

\* PdfToolJobSerializer field validation: the two choice fields, when given
PdfFieldsValid(req) ==
    /\ req.target_format # None => req.target_format[1] \in CONVERSION_FORMAT_CHOICES
    /\ req.compression_level # None => req.compression_level[1] \in COMPRESSION_LEVEL_CHOICES

\* whether the view goes on to save the job and answer 202
ViewAccepts(req) ==
    IF req.kind = "image" THEN ImageIsValid(req)
    ELSE /\ PdfViewAccepts(req.tool_type, Len(req.files))
         /\ PdfFieldsValid(req)
         /\ ~CreateRaises(req)

\* the submissions counted for today in session s under the endpoint's key
Counted(sess, kind) == Get(Get(sess, SessionKey(kind), <<>>), today_str, 0)

\* what is kept of a POST: who made it, the request, the response's status
\* and error code, the job rows it added, and the session's count for today
\* before and after
Answer(s, is_authenticated, req, status, code) ==
    Some([session |-> s, is_authenticated |-> is_authenticated, req |-> req,
          status |-> status, code |-> code,
          created |-> {j \in JobIds : jobs[j] = None /\ jobs'[j] # None},
          before |-> Counted(session[s], req.kind),
          after |-> Counted(session'[s], req.kind)])

\* POST to ImageConversionView or PdfToolJobView: the permission check, the
\* view's validation, the serializer's save, the task's delay, the response
Post(s, is_authenticated, req) ==
    /\ \E perm \in {has_permission(session[s], req.kind, is_authenticated)} :
          IF ~perm.allowed
          THEN /\ UNCHANGED <<jobs, files, task, pending, session>>
               /\ response' = Answer(s, is_authenticated, req, HTTP_403_FORBIDDEN,
                                     "conversion_limit_exceeded")
          ELSE /\ session' = [session EXCEPT ![s] = perm.session]
               /\ IF ViewAccepts(req)
                  THEN /\ \E j \in JobIds : NextId(j) /\ SaveAndEnqueue(j, req)
                       /\ response' = Answer(s, is_authenticated, req,
                                             HTTP_202_ACCEPTED, "")
                  ELSE /\ UNCHANGED <<jobs, files, task, pending>>
                       /\ response' = Answer(s, is_authenticated, req,
                                             HTTP_400_BAD_REQUEST, "")
    /\ UNCHANGED <<redeliveries, run, last, procWrites, call>>

\* the POSTs made to ImageConversionView: with and without the parameters
\* the tool needs
ImageSubmissions ==
    { ImageReq("image_converter", ImgB, None, None, None, Some("PNG")),
      ImageReq("image_converter", ImgB, None, None, None, None),
      ImageReq("image_resizer", ImgA, None, Some(2), None, None),
      ImageReq("image_resizer", ImgA, None, None, None, None) }

\* the POSTs made to PdfToolJobView: every tool with and without its
\* parameters, one with no file, one with a tool_type that is none of the four
PdfSubmissions ==
    { [Req("pdf", "pdf_converter", <<PdfB>>) EXCEPT !.target_format = Some("docx")],
      Req("pdf", "pdf_converter", <<PdfA>>),
      [Req("pdf", "file_compressor", <<PdfA, PdfB>>) EXCEPT !.compression_level = Some("low")],
      Req("pdf", "file_compressor", <<PdfA, PdfB>>),
      [Req("pdf", "file_compressor", <<>>) EXCEPT !.compression_level = Some("low")],
      [Req("pdf", "pdf_merger", <<PdfA, PdfB>>) EXCEPT
          !.merge_order = Some(JsonText(<<"a.pdf", "b.pdf">>, 1))],
      [Req("pdf", "pdf_merger", <<PdfA, PdfB>>) EXCEPT !.merge_order = Some(NotJson)],
      Req("pdf", "pdf_merger", <<PdfA, PdfB>>),
      [Req("pdf", "pdf_merger", <<PdfA>>) EXCEPT
          !.merge_order = Some(JsonText(<<"a.pdf">>, 1))],
      [Req("pdf", "pdf_splitter", <<PdfA>>) EXCEPT !.page_ranges = Some(Chars12_3)],
      Req("pdf", "pdf_splitter", <<PdfA>>),
      [Req("pdf", "pdf_rotator", <<PdfA>>) EXCEPT !.target_format = Some("docx")] }

\* the POSTs the daily allowance is followed with: one to each endpoint that
\* is answered 400, one that is accepted
QuotaSubmissions ==
    { ImageReq("image_resizer", ImgA, None, None, None, None),
      Req("pdf", "pdf_rotator", <<PdfA>>),
      [Req("pdf", "pdf_splitter", <<PdfA>>) EXCEPT !.page_ranges = Some(Chars12_3)] }

\* at-least-once delivery: the queue hands out once more a task message
\* that it has delivered before
Redeliver(j) ==
    /\ task[j] # None
    /\ pending[j] = 0
    /\ redeliveries < MaxRedeliveries
    /\ redeliveries' = redeliveries + 1
    /\ pending' = [pending EXCEPT ![j] = @ + 1]
    /\ UNCHANGED <<jobs, task, run, last, procWrites, files>>
    /\ UNCHANGED <<web, call>>

\* variant: the DoesNotExist clause records the failure in a new row
HandleDoesNotExistCreates(store, j) ==
    [store EXCEPT ![j] =
        Some([NewJob(j, CHOOSE r \in Requests : r.kind = "image")
                 EXCEPT !.status = "FAILED", !.error_message = <<"Job not found.">>])]

\* except <Job>.DoesNotExist: only logs
HandleDoesNotExist(store, j) == store

\* variant: the output location is assigned as the run begins
LoadAndAssignOutput(store, j) ==
    [store[j][1] EXCEPT !.status = "PROCESSING",
                        !.output_url = DownloadUrl(OutputPath(store[j][1].kind, j,
                                                              <<"output", ".bin">>))]

\* job = <Job>.objects.get(id=job_id); job.status = 'PROCESSING'; job.save()
LoadAndMarkProcessing(store, j) == [store[j][1] EXCEPT !.status = "PROCESSING"]

\* variant: the status is written with an update of the whole table
SaveStatusOfAll(store, j, job) ==
    [i \in DOMAIN store |->
        IF i = j THEN Some(job)
        ELSE IF store[i] = None THEN None
        ELSE Some([store[i][1] EXCEPT !.status = job.status])]

\* Model.save(): the row is updated, or inserted when it is gone
Save(store, j, job) == [store EXCEPT ![j] = Some(job)]

\* A worker takes a delivery of job j's task and runs the runner up to its
\* first save; with no record the run is abandoned in the DoesNotExist clause.
Claim(j) ==
    /\ pending[j] > 0
    /\ ~Live(j)
    /\ pending' = [pending EXCEPT ![j] = @ - 1]
    /\ IF ~Exists(j)
       THEN /\ jobs' = HandleDoesNotExist(jobs, j)
            /\ last' = [last EXCEPT ![j] =
                            Some([abandoned |-> TRUE,
                                  raised |-> Some(Exc("DoesNotExist", "matching query does not exist.")),
                                  escaped |-> FALSE, saved |-> FALSE,
                                  written |-> {}, removed |-> {},
                                  clean |-> TRUE])]
            /\ UNCHANGED <<run, procWrites>>
       ELSE LET job == LoadAndMarkProcessing(jobs, j) IN
            /\ jobs' = Save(jobs, j, job)
            /\ run' = [run EXCEPT ![j] = Some([job |-> job])]
            /\ procWrites' = [procWrites EXCEPT ![j] = @ + 1]
            /\ last' = [last EXCEPT ![j] = None]
    /\ UNCHANGED <<task, redeliveries, files>>
    /\ UNCHANGED <<web, call>>

\* Files the runner body is given are marked (negative age) so that every
\* file it writes, also one it rewrites with the same content, shows.
Mark(fs) == [q \in DOMAIN fs |-> [fs[q] EXCEPT !.age = -(@ + 1)]]
Unmark(fs) == [q \in DOMAIN fs |-> [fs[q] EXCEPT !.age = IF @ < 0 THEN -@ - 1 ELSE @]]
Written(fs) == {q \in DOMAIN fs : fs[q].age >= 0}

RunBody(job, args, fs, env) ==
    IF job.kind = "image" THEN ImageBody(job, args, fs, env)
    ELSE PdfBody(job, fs, env)

\* The rest of the invocation that Claim began: the runner body up to its
\* return, with its last save.
Execute(j) ==
    /\ Live(j)
    /\ \E env \in Envs :
         \E r \in {RunBody(run[j][1].job, task[j][1], Mark(files), env)} :
         /\ jobs' = IF r.saved THEN Save(jobs, j, r.job) ELSE jobs
         /\ files' = Unmark(r.fs)
         /\ last' = [last EXCEPT ![j] =
                        Some([abandoned |-> FALSE, raised |-> r.raised,
                              escaped |-> r.escaped, saved |-> r.saved,
                              written |-> Written(r.fs),
                              removed |-> DOMAIN files \ DOMAIN r.fs,
                              clean |-> env = NoFailure])]
    /\ run' = [run EXCEPT ![j] = None]
    /\ UNCHANGED <<task, pending, redeliveries, procWrites>>
    /\ UNCHANGED <<web, call>>

\* variant: an OSError of os.remove is not caught
DeleteUncaught(store, fs, j, remove_raises) ==
    LET url == store[j][1].output_url
        path == SubSeq(url, 2, Len(url))
    IN IF url # None /\ FileExists(fs, path)
       THEN IF remove_raises THEN [store |-> store, fs |-> fs]
            ELSE [store |-> [store EXCEPT ![j] = None], fs |-> RemoveFile(fs, path)]
       ELSE [store |-> [store EXCEPT ![j] = None], fs |-> fs]

\* ImageConversionJob.delete / PdfToolJob.delete: os.remove of the file
\* output_url names if it exists, an OSError of it being logged only, then
\* super().delete()
Delete(store, fs, j, remove_raises) ==
    LET url == store[j][1].output_url
        path == SubSeq(url, 2, Len(url))
    IN [store |-> [store EXCEPT ![j] = None],
        fs |-> IF url # None /\ FileExists(fs, path) /\ ~remove_raises
               THEN RemoveFile(fs, path) ELSE fs]

\* <Job>.delete(): the output file named by output_url is removed if it is
\* there, then the row
DeleteJob(j) ==
    /\ Exists(j)
    /\ \E remove_raises \in BOOLEAN :
       \E r \in {Delete(jobs, files, j, remove_raises)} :
          /\ files' = r.fs
          /\ jobs' = r.store
    /\ UNCHANGED <<task, pending, redeliveries, run, last, procWrites>>
    /\ UNCHANGED <<web, call>>

\* the dates a session counts under are a day further back
Age(conversion_counts) ==
    [d \in {k + 1 : k \in DOMAIN conversion_counts} |-> conversion_counts[d - 1]]

\* a day passes: every file is a day older (an age past the retention
\* window is not counted further), and so is every date a session counts
\* under
Tick ==
    /\ \/ \E q \in DOMAIN files : files[q].age <= RETENTION_DAYS
       \/ \E s \in Sessions : \E k \in DOMAIN session[s] :
             today_str \in DOMAIN session[s][k]
    /\ \A s \in Sessions : \A k \in DOMAIN session[s] :
          \A d \in DOMAIN session[s][k] : d < MaxDays
    /\ files' = [q \in DOMAIN files |->
                    [files[q] EXCEPT !.age = IF @ > RETENTION_DAYS THEN @ ELSE @ + 1]]
    /\ session' = [s \in Sessions |->
                      [k \in DOMAIN session[s] |-> Age(session[s][k])]]
    /\ UNCHANGED <<jobs, task, pending, redeliveries, run, last, procWrites,
                   response, call>>

\* variant: a file modified RETENTION_DAYS ago is removed as well
cleanup_day_old ==
    /\ \E q \in DOMAIN files : files[q].age >= RETENTION_DAYS
    /\ files' = RemoveFiles(files, {q \in DOMAIN files : files[q].age >= RETENTION_DAYS})
    /\ UNCHANGED <<jobs, task, pending, redeliveries, run, last, procWrites>>
    /\ UNCHANGED <<web, call>>

\* cleanup_old_media: every file under MEDIA_ROOT modified more than
\* RETENTION_DAYS ago is removed
cleanup_old_media ==
    /\ \E q \in DOMAIN files : files[q].age > RETENTION_DAYS
    /\ files' = RemoveFiles(files, {q \in DOMAIN files : files[q].age > RETENTION_DAYS})
    /\ UNCHANGED <<jobs, task, pending, redeliveries, run, last, procWrites>>
    /\ UNCHANGED <<web, call>>

\* nothing submitted yet
Idle ==
    /\ jobs = [j \in JobIds |-> None]
    /\ task = [j \in JobIds |-> None]
    /\ pending = [j \in JobIds |-> 0]
    /\ redeliveries = 0
    /\ run = [j \in JobIds |-> None]
    /\ last = [j \in JobIds |-> None]
    /\ procWrites = [j \in JobIds |-> 0]
    /\ files = <<>>
    /\ session = [s \in Sessions |-> <<>>]
    /\ response = None

Init == Idle /\ call = None

Next ==
    \/ \E j \in JobIds, req \in LifecycleRequests : CreateJob(j, req)
    \/ \E j \in JobIds : Redeliver(j)
    \/ \E j \in JobIds : Claim(j)
    \/ \E j \in JobIds : Execute(j)
    \/ \E j \in JobIds : DeleteJob(j)

\* the job lifecycle: submission, delivery, the runners, deletion
Spec == Init /\ [][Next]_vars

\* one job of every kind of request, through every tool, with the passing
\* of days and the daily sweep
ToolNext ==
    \/ \E req \in Requests : CreateJob(1, req)
    \/ Redeliver(1)
    \/ Claim(1)
    \/ Execute(1)
    \/ DeleteJob(1)
    \/ Tick
    \/ cleanup_old_media

ToolSpec == Init /\ [][ToolNext]_vars

\* the same with a worker that keeps serving: a delivery that is waiting is
\* taken up, a runner that has started runs to its return
ToolLiveSpec == ToolSpec /\ WF_vars(Claim(1)) /\ WF_vars(Execute(1))

\* one split or compress job through its runs, with the passing of days and
\* the daily sweep
VariantNext ==
    \/ \E req \in VariantRequests : CreateJob(1, req)
    \/ Redeliver(1)
    \/ Claim(1)
    \/ Execute(1)
    \/ DeleteJob(1)
    \/ Tick
    \/ cleanup_old_media

VariantSpec == Init /\ [][VariantNext]_vars

\* the job lifecycle with the passing of days and the daily sweep
SweepNext == Next \/ Tick \/ cleanup_old_media
SweepSpec == Init /\ [][SweepNext]_vars

\* the characters page_ranges strings are made of
PageRangeChars == {"0", "1", "2", "-", ",", " ", "_", "+"}

\* the page_ranges strings of at most n characters
Strings(n) == UNION {[1..k -> PageRangeChars] : k \in 0..n}

\* the parser of the splitter is given a string and a page count
ParseInit ==
    /\ Idle
    /\ call \in {Some([fn |-> "page_ranges", args |-> <<cs, f.pages>>, result |-> None]) :
                    cs \in Strings(MaxLen), f \in {PdfA, PdfB}}

\* process_file_task, pdf_splitter: the parsing of page_ranges
ApplyParse ==
    /\ call # None
    /\ call[1].fn = "page_ranges"
    /\ call[1].result = None
    /\ call' = Some([call[1] EXCEPT
                        !.result = Some(ParsePageRanges(call[1].args[1], call[1].args[2]))])
    /\ UNCHANGED <<jobs, task, pending, redeliveries, run, last, procWrites, files,
                   session, response>>

ParseSpec == ParseInit /\ [][ApplyParse]_vars

\* a side of an image, a width or a height asked for
Sides == 1..MaxSide
OptionalSides == {None} \cup {Some(n) : n \in Sides}

\* the resizing is given an image's size and the width and height asked for
ResizeInit ==
    /\ Idle
    /\ call \in {Some([fn |-> "resize", args |-> <<ow, oh, w, h>>, result |-> None]) :
                    ow \in Sides, oh \in Sides, w \in OptionalSides, h \in OptionalSides}

\* process_image_task: the resizing logic
ApplyResize ==
    /\ call # None
    /\ call[1].fn = "resize"
    /\ call[1].result = None
    /\ call' = Some([call[1] EXCEPT
                        !.result = Some(ResizedSize(call[1].args[1], call[1].args[2],
                                                    call[1].args[3], call[1].args[4]))])
    /\ UNCHANGED <<jobs, task, pending, redeliveries, run, last, procWrites, files,
                   session, response>>

ResizeSpec == ResizeInit /\ [][ApplyResize]_vars

\* ------------------------------------------------------------- download
\* <Job>.objects.get(id=job_id) on the view's own table: the row, or None
Lookup(store, kind, job_id) ==
    IF job_id \in DOMAIN store /\ store[job_id] # None /\ store[job_id][1].kind = kind
    THEN store[job_id]
    ELSE None

\* output_url.startswith(settings.MEDIA_URL)
StartsWithMediaUrl(output_url) == output_url # <<>> /\ output_url[1] = MEDIA_URL

\* output_url[len(settings.MEDIA_URL):]
RelativePath(output_url) == SubSeq(output_url, 2, Len(output_url))

Answered(status, streamed) == [status |-> status, streamed |-> streamed]

\* variant: the status of the job is not looked at
DownloadAnyStatus(store, fs, kind, job_id, open_fails) ==
    LET row == Lookup(store, kind, job_id) IN
    IF row = None THEN Answered(HTTP_404_NOT_FOUND, None)
    ELSE IF row[1].output_url = None
    THEN Answered(HTTP_404_NOT_FOUND, None)
    ELSE IF ~StartsWithMediaUrl(row[1].output_url)
    THEN Answered(HTTP_500_INTERNAL_SERVER_ERROR, None)
    ELSE IF ~FileExists(fs, RelativePath(row[1].output_url))
    THEN Answered(HTTP_404_NOT_FOUND, None)
    ELSE IF open_fails THEN Answered(HTTP_500_INTERNAL_SERVER_ERROR, None)
    ELSE Answered(HTTP_200_OK, Some(RelativePath(row[1].output_url)))

\* ImageConversionJobDownloadView.get / PdfToolJobDownloadView.get: the
\* status of the response and the file it streams
Download(store, fs, kind, job_id, open_fails) ==
    LET row == Lookup(store, kind, job_id) IN
    IF row = None THEN Answered(HTTP_404_NOT_FOUND, None)
    ELSE IF row[1].status # "COMPLETED" \/ row[1].output_url = None
    THEN Answered(HTTP_404_NOT_FOUND, None)
    ELSE IF ~StartsWithMediaUrl(row[1].output_url)
    THEN Answered(HTTP_500_INTERNAL_SERVER_ERROR, None)
    ELSE IF ~FileExists(fs, RelativePath(row[1].output_url))
    THEN Answered(HTTP_404_NOT_FOUND, None)
    ELSE IF open_fails THEN Answered(HTTP_500_INTERNAL_SERVER_ERROR, None)
    ELSE Answered(HTTP_200_OK, Some(RelativePath(row[1].output_url)))

\* where a job of the kind writes the output the rows below name
StoredOutput(kind, j) == OutputPath(kind, j, <<"output", ".bin">>)

\* what a row's output_url may hold: nothing, the URL of the job's output,
\* the same stored while settings.MEDIA_URL was another prefix
StoredUrls(kind, j) ==
    { None,
      DownloadUrl(StoredOutput(kind, j)),
      <<"/files/">> \o StoredOutput(kind, j) }

\* the rows a job id may have in the tables: none, or a job of either kind
\* in any status with any of the URLs
StoredRows(j) ==
    {None} \cup
    { Some([NewJob(j, req) EXCEPT !.status = status, !.output_url = url]) :
        req \in {r \in LifecycleRequests : r.tool_type \in {"image_converter", "pdf_splitter"}
                                            /\ r.page_ranges \in {None, Some(Chars12_3)}},
        status \in STATUS_CHOICES,
        url \in StoredUrls("image", j) \cup StoredUrls("pdf", j) }

\* the download view is called for a job id, with some rows in the tables
\* and some of the outputs on disk
DownloadInit ==
    /\ jobs \in [JobIds -> UNION {StoredRows(j) : j \in JobIds}]
    /\ \A j \in JobIds : jobs[j] \in StoredRows(j)
    /\ \A j \in JobIds : jobs[j] # None /\ jobs[j][1].output_url # None
          => jobs[j][1].output_url[2] = ProcessedDir(jobs[j][1].kind)
    /\ files \in {[q \in on_disk |-> [age |-> 0, data |-> Garbage]] :
                      on_disk \in SUBSET {StoredOutput(kind, j) :
                                             kind \in {"image", "pdf"}, j \in JobIds}}
    /\ \A q \in DOMAIN files :
          jobs[q[2]] # None /\ jobs[q[2]][1].kind = (IF q[1] = ProcessedDir("image") THEN "image" ELSE "pdf")
    /\ task = [j \in JobIds |-> None]
    /\ pending = [j \in JobIds |-> 0]
    /\ redeliveries = 0
    /\ run = [j \in JobIds |-> None]
    /\ last = [j \in JobIds |-> None]
    /\ procWrites = [j \in JobIds |-> 0]
    /\ session = [s \in Sessions |-> <<>>]
    /\ response = None
    /\ call \in {Some([fn |-> "download", args |-> <<kind, j, open_fails>>, result |-> None]) :
                    kind \in {"image", "pdf"}, j \in JobIds \cup {MaxJobs + 1},
                    open_fails \in BOOLEAN}

\* GET of the download view
ApplyDownload ==
    /\ call # None
    /\ call[1].fn = "download"
    /\ call[1].result = None
    /\ call' = Some([call[1] EXCEPT
                        !.result = Some(Download(jobs, files, call[1].args[1],
                                                 call[1].args[2], call[1].args[3]))])
    /\ UNCHANGED <<jobs, task, pending, redeliveries, run, last, procWrites, files,
                   session, response>>

DownloadSpec == DownloadInit /\ [][ApplyDownload]_vars

\* ------------------------------------------------------ output paths
\* the paths a run of the runner for the job of `req` with primary key j
\* leaves written, the uploads being in place and the surroundings failing
\* as env says
PathsWritten(req, j, env) ==
    LET job == NewJob(j, req)
    IN Written(RunBody([job EXCEPT !.status = "PROCESSING"], TaskArgs(job),
                       Mark(StoreUploads(files, job, req)), env).fs)

\* a job: its request, its primary key in its table, the failure its run meets
RunsOf(ids) == [req : Requests, id : ids, env : Envs]

\* two jobs: of the same table with different primary keys, or of the two
\* tables
OutputInit ==
    /\ Idle
    /\ \E a \in RunsOf({1}), b \in RunsOf(1..(MaxJobs + 1)) :
          /\ b.req.kind # a.req.kind \/ b.id # a.id
          /\ call = Some([fn |-> "outputs", args |-> <<a, b>>, result |-> None])

\* the runner runs for both
ApplyOutputs ==
    /\ call # None
    /\ call[1].fn = "outputs"
    /\ call[1].result = None
    /\ call' = Some([call[1] EXCEPT
                        !.result = Some([i \in {1, 2} |->
                                            PathsWritten(call[1].args[i].req,
                                                         call[1].args[i].id,
                                                         call[1].args[i].env)])])
    /\ UNCHANGED <<jobs, task, pending, redeliveries, run, last, procWrites, files,
                   session, response>>

OutputSpec == OutputInit /\ [][ApplyOutputs]_vars

\* ---------------------------------------------------- one invocation
\* process_image_task / process_file_task from the delivery to the return:
\* the table and the file store it leaves, and whether it wrote FAILED
Invoke(store, j, args, fs, env) ==
    IF store[j] = None
    THEN [store |-> HandleDoesNotExist(store, j), fs |-> fs, found |-> FALSE,
          saved |-> FALSE, job |-> None]
    ELSE LET job == LoadAndMarkProcessing(store, j)
             r == RunBody(job, args, Mark(fs), env)
         IN [store |-> IF r.saved THEN Save(Save(store, j, job), j, r.job)
                       ELSE Save(store, j, job),
             fs |-> Unmark(r.fs), found |-> TRUE, saved |-> r.saved,
             job |-> Some(r.job)]

\* what a row may hold: as submitted, or as an earlier run (or an edit of
\* the row) left it
RowStates ==
    { [status |-> "PENDING", has_output |-> FALSE, error_message |-> None],
      [status |-> "PROCESSING", has_output |-> FALSE, error_message |-> None],
      [status |-> "COMPLETED", has_output |-> TRUE, error_message |-> None],
      [status |-> "FAILED", has_output |-> FALSE,
       error_message |-> <<"Processing failed.">>] }

\* the row of job j of a request in the state `row`; no row for None
RowOf(j, req, row) ==
    IF row = None THEN None
    ELSE Some([NewJob(j, req) EXCEPT !.status = row[1].status,
                                     !.output_url =
                                         IF row[1].has_output
                                         THEN DownloadUrl(StoredOutput(req.kind, j))
                                         ELSE None,
                                     !.error_message = row[1].error_message])

\* None or Some of a set's elements
Optional(S) == {None} \cup {Some(x) : x \in S}

\* image_converter jobs as a row can hold them: target_format is nullable,
\* and choices are checked by the serializer only
ConvertRequests ==
    { ImageReq("image_converter", ImgB, None, None, None, None),
      ImageReq("image_converter", ImgB, None, None, None, Some("SVG")) }

\* a merge job whose merge_order is the JSON array of its files' names
MergeRequests ==
    { [Req("pdf", "pdf_merger", <<PdfA, PdfB>>) EXCEPT
          !.merge_order = Some(JsonText(<<"b.pdf", "a.pdf">>, 1))] }

\* split jobs whose page_ranges hold separators and whitespace only
SeparatorRequests ==
    { [Req("pdf", "pdf_splitter", <<PdfA>>) EXCEPT !.page_ranges = Some(<<",">>)],
      [Req("pdf", "pdf_splitter", <<PdfA>>) EXCEPT !.page_ranges = Some(<<" ", ",", " ">>)] }

\* a delivery of the task of one job, with other jobs in the table
InvokeInit ==
    /\ Idle
    /\ \E id \in 1..(MaxJobs + 1), req \in Requests \cup ConvertRequests \cup MergeRequests \cup SeparatorRequests,
          other \in ImageRequests, env \in Envs :
       \E row \in Optional(RowStates),
          rows \in [1..(MaxJobs + 1) \ {id} -> Optional(RowStates)] :
          call = Some([fn |-> "invoke",
                       args |-> [store |-> [i \in 1..(MaxJobs + 1) |->
                                               IF i = id THEN RowOf(id, req, row)
                                               ELSE RowOf(i, other, rows[i])],
                                 id |-> id, req |-> req, env |-> env],
                       result |-> None])

\* the runner runs for the delivery
ApplyInvoke ==
    /\ call # None
    /\ call[1].fn = "invoke"
    /\ call[1].result = None
    /\ \E a \in {call[1].args} :
       \E job \in {NewJob(a.id, a.req)} :
          call' = Some([call[1] EXCEPT
                           !.result = Some(Invoke(a.store, a.id, TaskArgs(job),
                                                  StoreUploads(files, job, a.req), a.env))])
    /\ UNCHANGED <<jobs, task, pending, redeliveries, run, last, procWrites, files,
                   session, response>>

InvokeSpec == InvokeInit /\ [][ApplyInvoke]_vars

\* ------------------------------------------------------------ deletion
\* delete() is called on a job, with other jobs in the table and some of
\* the outputs on disk
DeleteInit ==
    /\ Idle
    /\ \E id \in 1..(MaxJobs + 1), req \in ImageRequests \cup ConvertRequests,
          remove_raises \in BOOLEAN :
       \E rows \in [1..(MaxJobs + 1) -> Optional(RowStates)],
          on_disk \in SUBSET {StoredOutput(req.kind, i) : i \in 1..(MaxJobs + 1)} :
          /\ rows[id] # None
          /\ call = Some([fn |-> "delete",
                          args |-> [store |-> [i \in 1..(MaxJobs + 1) |->
                                                  RowOf(i, req, rows[i])],
                                    fs |-> [q \in on_disk |-> [age |-> 0, data |-> Garbage]],
                                    id |-> id, remove_raises |-> remove_raises],
                          result |-> None])

\* job.delete()
ApplyDelete ==
    /\ call # None
    /\ call[1].fn = "delete"
    /\ call[1].result = None
    /\ call' = Some([call[1] EXCEPT
                        !.result = Some(Delete(call[1].args.store, call[1].args.fs,
                                               call[1].args.id, call[1].args.remove_raises))])
    /\ UNCHANGED <<jobs, task, pending, redeliveries, run, last, procWrites, files,
                   session, response>>

DeleteSpec == DeleteInit /\ [][ApplyDelete]_vars

\* ----------------------------------------------- deletion of an upload
\* what is left of an uploaded-file record and its directory:
\* name is the FileField's value, row whether the record is in the table,
\* dir whether the upload's directory is there, raised the exception that
\* left delete()
Left(fs, name, row, dir, raised) ==
    [fs |-> fs, name |-> name, row |-> row, dir |-> dir, raised |-> raised]

\* FieldFile.path: _require_file() raises ValueError for a field without file
FieldFilePath(name) ==
    IF name = None
    THEN [err |-> Some(Exc("ValueError",
                           "The 'file' attribute has no file associated with it.")),
          path |-> None]
    ELSE [err |-> None, path |-> name]

\* logger.error(f"... {self.file.path}: {e}") in an except clause: the
\* exception the f-string raises, if any
LogWithPath(name) == FieldFilePath(name).err

\* os.path.exists(file_dir) and not os.listdir(file_dir)
IsEmptyDir(fs, path) == \A q \in DOMAIN fs : ~(q[1] = path[1] /\ q[2] = path[2])

\* UploadedFile.delete / PdfUploadedFile.delete.  self.file.delete(save=False)
\* removes the file from the storage and sets the field's name to None; an
\* OSError of the storage leaves the name set.
DeleteUpload(kind, fs, name, storage_raises) ==
    IF name = None THEN Left(fs, name, FALSE, TRUE, None)
    ELSE IF storage_raises
    THEN \* except OSError: logged with self.file.path, then super().delete()
         Left(fs, name, LogWithPath(name) # None, TRUE, LogWithPath(name))
    ELSE LET after == RemoveFile(fs, name[1])
             file_dir == FieldFilePath(None)
         IN IF file_dir.err # None
            THEN \* image: except Exception, whose log line reads
                 \* self.file.path again; pdf: no clause for ValueError
                 IF kind = "image" /\ LogWithPath(None) = None
                 THEN Left(after, None, FALSE, TRUE, None)
                 ELSE Left(after, None, TRUE, TRUE, file_dir.err)
            ELSE Left(after, None, FALSE, ~IsEmptyDir(after, name[1]), None)

\* delete() is called on the record of an upload: the field holds a file or
\* not, the file is on disk or not, alone in its directory or not
UploadDeleteInit ==
    /\ Idle
    /\ \E kind \in {"image", "pdf"}, fid \in 1..(MaxJobs + 1),
          f \in {ImgA, ImgB, PdfA, PdfB},
          has_file \in BOOLEAN, storage_raises \in BOOLEAN,
          on_disk \in BOOLEAN, alone \in BOOLEAN :
       \E path \in {uploaded_file_path(kind, FileId(fid, 1), <<f.base, f.ext>>)} :
          call = Some([fn |-> "delete_upload",
                       args |-> [kind |-> kind,
                                 name |-> IF has_file THEN Some(path) ELSE None,
                                 path |-> path,
                                 fs |-> [q \in (IF on_disk THEN {path} ELSE {}) \cup
                                                (IF alone THEN {}
                                                 ELSE {<<path[1], path[2], <<"other", ".bin">>>>}) |->
                                            [age |-> 0, data |-> Garbage]],
                                 storage_raises |-> storage_raises],
                       result |-> None])

\* uploaded_file.delete()
ApplyUploadDelete ==
    /\ call # None
    /\ call[1].fn = "delete_upload"
    /\ call[1].result = None
    /\ call' = Some([call[1] EXCEPT
                        !.result = Some(DeleteUpload(call[1].args.kind, call[1].args.fs,
                                                     call[1].args.name,
                                                     call[1].args.storage_raises))])
    /\ UNCHANGED <<jobs, task, pending, redeliveries, run, last, procWrites, files,
                   session, response>>

UploadDeleteSpec == UploadDeleteInit /\ [][ApplyUploadDelete]_vars

\* ------------------------------------------- the image runner's tool_type
\* process_image_task for a job of tool_type on an uploaded image of
\* original_size: the status it ends in and, of the file it has written,
\* the name, the format and the size. Image.resize raises ValueError for a
\* size with a side of 0, which the runner's `except Exception` stores.
ImageOutcome(tool_type, a) ==
    LET req == ImageReq(tool_type, a.img, a.quality, a.width, a.height, a.target_format)
        job == NewJob(1, req)
        size == ResizedSize(a.original_size[1], a.original_size[2],
                            TaskArgs(job).width, TaskArgs(job).height)
        r == Invoke(<<Some(job)>>, 1, TaskArgs(job),
                    StoreUploads(files, job, req),
                    IF size[1] < 1 \/ size[2] < 1
                    THEN [failAt |-> 1, how |-> "error"] ELSE a.env)
    IN [status |-> r.job[1].status,
        output_url |-> r.job[1].output_url,
        outputs |-> {[name |-> q[3], format |-> r.fs[q].data.format,
                      size |-> IF r.job[1].status = "COMPLETED" THEN Some(size) ELSE None]
                        : q \in OutputFiles(r.fs, "image", 1)}]

\* one upload and one set of parameters, submitted under two tool types
ToolTypeInit ==
    /\ Idle
    /\ \E img \in {ImgA, ImgB}, original_width \in Sides,
          quality \in Optional({80}), width \in OptionalSides, height \in OptionalSides,
          target_format \in Optional({"PNG", "webp", "SVG"}),
          tool_types \in SUBSET IMAGE_TOOL_TYPES,
          env \in {v \in Envs : v.failAt <= 1} :
          /\ Cardinality(tool_types) = 2
          /\ call = Some([fn |-> "process_image_task",
                          args |-> [img |-> img,
                                    original_size |->
                                        <<original_width, MaxSide + 1 - original_width>>,
                                    quality |-> quality, width |-> width,
                                    height |-> height, target_format |-> target_format,
                                    tool_types |-> tool_types, env |-> env],
                          result |-> None])

\* the runner runs once for each of the two tool types
ApplyToolTypes ==
    /\ call # None
    /\ call[1].fn = "process_image_task"
    /\ call[1].result = None
    /\ call' = Some([call[1] EXCEPT
                        !.result = Some([t \in call[1].args.tool_types |->
                                            ImageOutcome(t, call[1].args)])])
    /\ UNCHANGED <<jobs, task, pending, redeliveries, run, last, procWrites, files,
                   session, response>>

ToolTypeSpec == ToolTypeInit /\ [][ApplyToolTypes]_vars

\* the two submission endpoints, called with and without a login
SubmitNext ==
    \/ \E s \in Sessions, is_authenticated \in BOOLEAN, req \in ImageSubmissions :
          Post(s, is_authenticated, req)
    \/ \E s \in Sessions, is_authenticated \in BOOLEAN, req \in PdfSubmissions :
          Post(s, is_authenticated, req)

SubmitSpec == Init /\ [][SubmitNext]_vars

\* the daily allowance: POSTs to both endpoints with and without a login,
\* and the passing of days
QuotaNext ==
    \/ \E s \in Sessions, is_authenticated \in BOOLEAN, req \in QuotaSubmissions :
          Post(s, is_authenticated, req)
    \/ Tick

QuotaSpec == Init /\ [][QuotaNext]_vars

\* ------------------------------------------------------------ properties
\* what the latest invocation for job j did (it has returned)
Last(j) == last[j][1]

\* the latest invocation for job j found the record, has returned, and no
\* later one has begun
RanToReturn(j) == Returned(j) /\ ~Last(j).abandoned /\ ~Live(j)

\* the step is a worker taking a delivery of job j's task
Delivered(j) == pending'[j] < pending[j]

\* the record's tool_type is none of its tool's choices
UnknownTool(job) ==
    IF job.kind = "image" THEN job.tool_type \notin IMAGE_TOOL_TYPES
    ELSE job.tool_type \notin PDF_TOOL_TYPES

\* C1: in every reachable state, whatever deliveries the runner has had
\* (a second delivery of the same job id included), every job record has
\* output_url non-null if and only if its status is COMPLETED.
C1_OutputUrlIffCompleted ==
    \A j \in JobIds :
        Exists(j) => (Job(j).output_url # None <=> Job(j).status = "COMPLETED")

\* C2: in every reachable state, whatever deliveries the runner has had
\* (a second delivery of the same job id included), every job record has
\* error_message non-null if and only if its status is FAILED.
C2_ErrorMessageIffFailed ==
    \A j \in JobIds :
        Exists(j) => (Job(j).error_message # None <=> Job(j).status = "FAILED")

\* C3: terminal states are absorbing: no step changes the status of a
\* record that is COMPLETED or FAILED.
C3_TerminalAbsorbing ==
    [][\A j \in JobIds :
          (Exists(j) /\ Job(j).status \in Terminal /\ Exists(j)')
              => Job(j)'.status = Job(j).status]_vars

\* C4: over any sequence of deliveries of a job id, the job's status is
\* written to PROCESSING at most once.
C4_ProcessingWrittenOnce ==
    \A j \in JobIds : procWrites[j] <= 1

\* C5: a delivery of a job id whose record is COMPLETED is a no-op: the
\* record is not written and the runner goes no further, so that no file
\* is created, overwritten or removed.
C5_RedeliveryToCompletedNoOp ==
    [][\A j \in JobIds :
          (Delivered(j) /\ Exists(j) /\ Job(j).status = "COMPLETED")
              => (jobs'[j] = jobs[j] /\ ~Live(j)' /\ files' = files)]_vars

\* C6: when an invocation on an existing record has returned, whatever the
\* record's tool_type and parameters, the status is COMPLETED or FAILED.
C6_NeverLeftProcessing ==
    \A j \in JobIds :
        (RanToReturn(j) /\ Exists(j)) => Job(j).status \in Terminal

\* C7: every job created in PENDING by a submission eventually is
\* COMPLETED or FAILED, unless its record is deleted, when deliveries are
\* taken up and runners run to their return.
C7_PendingReachesTerminal ==
    \A j \in JobIds :
        (Exists(j) /\ Job(j).status = "PENDING" /\ Submitted(Job(j)))
            ~> (~Exists(j) \/ Job(j).status \in Terminal)

\* a submitted job has been run and is COMPLETED or FAILED
C7_Witness ==
    \E j \in JobIds :
        /\ Exists(j) /\ Submitted(Job(j)) /\ RanToReturn(j)
        /\ Job(j).status \in Terminal

\* C8: an exception raised while an existing job is processed does not
\* leave the runner: the invocation saves the record, and returns with
\* status FAILED and an error_message of which the exception's text is a
\* part.
C8_ExceptionsCaught ==
    \A j \in JobIds :
        (RanToReturn(j) /\ Last(j).raised # None) =>
            /\ ~Last(j).escaped
            /\ Last(j).saved
            /\ Exists(j) =>
                  /\ Job(j).status = "FAILED"
                  /\ Job(j).error_message # None
                  /\ Last(j).raised[1].text \in Range(Job(j).error_message)

\* an invocation found its source file gone, and has returned
C8_Witness ==
    \E j \in JobIds :
        /\ RanToReturn(j) /\ Exists(j)
        /\ Last(j).raised # None
        /\ Last(j).raised[1].type = "FileNotFoundError"
        /\ \E i \in 1..Len(Job(j).uploaded_files) :
              ~FileExists(files, Job(j).uploaded_files[i])

\* C9: a delivery of a job id that has no record is abandoned: no record
\* is created or modified, no file is written or removed, and the runner
\* goes no further.
C9_MissingRecordAbandoned ==
    [][\A j \in JobIds :
          (Delivered(j) /\ ~Exists(j))
              => (jobs' = jobs /\ files' = files /\ ~Live(j)')]_vars

\* a delivery found no record and the run was abandoned
C9_Witness ==
    \E j \in JobIds :
        /\ Returned(j) /\ Last(j).abandoned
        /\ ~Exists(j) /\ task[j] # None

\* C10: an invocation on a record whose tool_type is none of the known
\* ones returns with the job FAILED and has written no file.
C10_UnknownToolFails ==
    \A j \in JobIds :
        (RanToReturn(j) /\ Exists(j) /\ UnknownTool(Job(j))) =>
            /\ Job(j).status = "FAILED"
            /\ Last(j).written = {}

\* the latest POST and its answer
Resp == response[1]

\* the POST got past the daily allowance
Allowed(r) == r.status # HTTP_403_FORBIDDEN

\* the parameters the request's tool needs are there and well-formed: a
\* width or a height to resize to, a target format to convert to, a
\* compression level, a merge order (JSON) with two files or more, page ranges
ParamsValid(req) ==
    CASE req.tool_type = "image_resizer" -> req.width # None \/ req.height # None
      [] req.tool_type = "image_compressor" -> TRUE
      [] req.tool_type = "image_converter" -> req.target_format # None
      [] req.tool_type = "pdf_converter" -> req.target_format # None
      [] req.tool_type = "file_compressor" -> req.compression_level # None
      [] req.tool_type = "pdf_merger" ->
            /\ req.merge_order # None
            /\ req.merge_order[1].ok
            /\ Len(req.files) >= 2
      [] req.tool_type = "pdf_splitter" -> req.page_ranges # None
      [] OTHER -> FALSE

\* C11: a POST to the image endpoint or to the PDF endpoint that is let
\* through by the daily allowance, carries a file and has the parameters its
\* tool needs is answered 202, and has added exactly one job row, in PENDING,
\* whose id has been handed to the queue.
C11_ValidSubmissionAccepted ==
    (response # None /\ Allowed(Resp) /\ Resp.req.files # <<>> /\ ParamsValid(Resp.req))
        => /\ Resp.status = HTTP_202_ACCEPTED
           /\ Cardinality(Resp.created) = 1
           /\ \A j \in Resp.created :
                 /\ Exists(j) /\ Job(j).status = "PENDING"
                 /\ task[j] # None /\ task[j][1].job_id = j /\ pending[j] = 1

\* C12: a POST let through by the daily allowance whose parameters are
\* missing or malformed for its tool is answered 400 and adds no job row.
C12_InvalidParamsRejected ==
    (response # None /\ Allowed(Resp) /\ Resp.req.tool_type \in IMAGE_TOOL_TYPES \cup PDF_TOOL_TYPES
                     /\ ~ParamsValid(Resp.req))
        => /\ Resp.status = HTTP_400_BAD_REQUEST
           /\ Resp.created = {}

\* C13: a POST is answered 403 with code conversion_limit_exceeded exactly
\* when it comes without a login from a session that already has 2 counted
\* submissions for the current date; a POST with a login is never refused.
C13_QuotaRejectsThird ==
    response # None =>
        /\ (Resp.status = HTTP_403_FORBIDDEN) <=> (~Resp.is_authenticated /\ Resp.before >= 2)
        /\ (Resp.code = "conversion_limit_exceeded") <=> (Resp.status = HTTP_403_FORBIDDEN)

\* a session without a login has had two POSTs let through today, one of
\* them accepted, and its third is refused
C13_Witness ==
    /\ response # None
    /\ Resp.status = HTTP_403_FORBIDDEN
    /\ Resp.before = 2
    /\ \E j \in JobIds : Exists(j)

\* C14: the session's count for today goes up only with a POST that is
\* answered 202; a POST answered 400 leaves it as it was.
C14_OnlyAcceptedCounted ==
    response # None =>
        /\ Resp.after # Resp.before => Resp.status = HTTP_202_ACCEPTED
        /\ Resp.status = HTTP_400_BAD_REQUEST => Resp.after = Resp.before

\* the function applied on its own has returned
Called(fn) == call # None /\ call[1].fn = fn /\ call[1].result # None

\* a run of decimal digits
IsNumber(cs) == cs # <<>> /\ \A i \in 1..Len(cs) : cs[i] \in Digits

\* one token of the page-range grammar, stripped: [ok, ranges], with no
\* interval for an empty token, <<N, N>> for a bare positive integer N,
\* <<start, end>> for start-end with whitespace allowed around the hyphen;
\* not ok for anything else, for start > end and for a page outside
\* 1..num_pages
GrammarToken(token, num_pages) ==
    IF token = <<>> THEN [ok |-> TRUE, ranges |-> <<>>]
    ELSE IF IsNumber(token)
    THEN LET n == DigitsVal(token)
         IN IF n >= 1 /\ n <= num_pages
            THEN [ok |-> TRUE, ranges |-> <<<<n, n>>>>]
            ELSE [ok |-> FALSE, ranges |-> <<>>]
    ELSE IF Count(token, "-") = 1
    THEN CHOOSE g \in
            { IF IsNumber(Strip(h[1])) /\ IsNumber(Strip(h[2]))
                 /\ DigitsVal(Strip(h[1])) <= DigitsVal(Strip(h[2]))
                 /\ DigitsVal(Strip(h[1])) >= 1
                 /\ DigitsVal(Strip(h[2])) <= num_pages
              THEN [ok |-> TRUE,
                    ranges |-> <<<<DigitsVal(Strip(h[1])), DigitsVal(Strip(h[2]))>>>>]
              ELSE [ok |-> FALSE, ranges |-> <<>>] :
              h \in {SplitOn(token, "-")} } : TRUE
    ELSE [ok |-> FALSE, ranges |-> <<>>]

RECURSIVE GrammarTokens(_, _)
\* the comma-separated tokens in order: any token that is not ok fails the whole
GrammarTokens(tokens, num_pages) ==
    IF tokens = <<>> THEN [ok |-> TRUE, ranges |-> <<>>]
    ELSE CHOOSE x \in
            { IF g.ok /\ rest.ok
              THEN [ok |-> TRUE, ranges |-> g.ranges \o rest.ranges]
              ELSE [ok |-> FALSE, ranges |-> <<>>] :
              g \in {GrammarToken(Strip(tokens[1]), num_pages)},
              rest \in {GrammarTokens(Tail(tokens), num_pages)} } : TRUE

\* what the page-range grammar makes of a string
Grammar(cs, num_pages) == GrammarTokens(SplitOn(cs, ","), num_pages)

\* C15: for every page_ranges string and page count, the parser accepts the
\* string exactly when the page-range grammar does, and then yields the
\* grammar's intervals in order.
C15_ParserMatchesGrammar ==
    Called("page_ranges") =>
        \E g \in {Grammar(call[1].args[1], call[1].args[2])},
           r \in {call[1].result[1]} :
            /\ g.ok <=> r.err = ""
            /\ g.ok => r.ranges = g.ranges

\* the pages of the document the job's first upload was made from
SourcePages(job) ==
    (CHOOSE f \in {PdfA, PdfB} : <<f.base, f.ext>> = job.uploaded_files[1][3]).pages

\* a split job whose page_ranges hold a malformed token or an interval with
\* start > end, start < 1 or end beyond the document's pages
BadRanges(job) ==
    /\ job.tool_type = "pdf_splitter"
    /\ Len(job.uploaded_files) = 1
    /\ job.page_ranges # None
    /\ ~Grammar(job.page_ranges[1], SourcePages(job)).ok

\* C16: once the runner has returned for a split job whose page_ranges hold
\* a malformed or out-of-range token, also after valid ones, the job is
\* FAILED, its output_url is unset, the run has written no file and no
\* output file of the job exists.
C16_BadRangesFailWhole ==
    \A j \in JobIds :
        (Exists(j) /\ RanToReturn(j) /\ BadRanges(Job(j)))
            => /\ Job(j).status = "FAILED"
               /\ Job(j).output_url = None
               /\ Last(j).written = {}
               /\ OutputFiles(files, "pdf", j) = {}

\* a split job whose first interval is valid and whose second is out of
\* range has run and is FAILED
C16_Witness ==
    \E j \in JobIds :
        /\ Exists(j) /\ RanToReturn(j) /\ BadRanges(Job(j))
        /\ Job(j).page_ranges = Some(Chars1_4)
        /\ Job(j).status = "FAILED"
        /\ Last(j).raised # None
        /\ Last(j).raised[1].type = "ValueError"

\* the latest run for job j met no failure of its surroundings and every
\* upload of the job is in place
Undisturbed(j) ==
    /\ Last(j).clean
    /\ \A i \in 1..Len(Job(j).uploaded_files) : FileExists(files, Job(j).uploaded_files[i])

\* a split job whose page_ranges the grammar accepts
GoodRanges(job) ==
    /\ job.tool_type = "pdf_splitter"
    /\ Len(job.uploaded_files) = 1
    /\ job.page_ranges # None
    /\ Grammar(job.page_ranges[1], SourcePages(job)).ok

\* the names the grammar's intervals give the output PDFs, in order
SplitNames(job) ==
    LET ranges == Grammar(job.page_ranges[1], SourcePages(job)).ranges
        base == job.uploaded_files[1][3][1]
    IN [i \in 1..Len(ranges) |->
           IF ranges[i][1] = ranges[i][2]
           THEN base \o "_page_" \o ToString(ranges[i][1]) \o ".pdf"
           ELSE base \o "_pages_" \o ToString(ranges[i][1]) \o "-"
                     \o ToString(ranges[i][2]) \o ".pdf"]

\* C17: once the runner has returned, undisturbed, for a split job whose
\* page_ranges parse to n valid intervals, the job is COMPLETED and its
\* output_url names a zip written by the run; while that zip is there it is
\* the job's only output file and holds exactly the n PDFs named
\* <base>_page_N.pdf or <base>_pages_N-M.pdf after the intervals.
C17_SplitCompletesWithZip ==
    \A j \in JobIds :
        (Exists(j) /\ RanToReturn(j) /\ GoodRanges(Job(j)) /\ Undisturbed(j))
            => /\ Job(j).status = "COMPLETED"
               /\ Job(j).output_url # None
               /\ \E zip \in {SubSeq(Job(j).output_url, 2, 4)} :
                     /\ zip[3][2] = ".zip"
                     /\ zip \in Last(j).written
                     /\ FileExists(files, zip) =>
                           /\ OutputFiles(files, "pdf", j) = {zip}
                           /\ files[zip].data.entries = SplitNames(Job(j))

\* a merge job with two uploads or more and a merge order
MergeJob(job) ==
    /\ job.tool_type = "pdf_merger"
    /\ Len(job.uploaded_files) >= 2
    /\ job.merge_order # None

IsUploadOf(job, filename) ==
    \E i \in 1..Len(job.uploaded_files) : NameStr(job.uploaded_files[i][3]) = filename

RECURSIVE Matching(_, _)
\* the names of a merge order that are names of the job's uploads, in order
Matching(job, names) ==
    IF names = <<>> THEN <<>>
    ELSE (IF IsUploadOf(job, names[1]) THEN <<names[1]>> ELSE <<>>)
         \o Matching(job, Tail(names))

\* C18: once the runner has returned, undisturbed, for a merge job with two
\* uploads or more, the job is COMPLETED and its output, while it is there,
\* is the concatenation in merge_order's order of the uploads that
\* merge_order names; a name that matches no upload is skipped.
C18_MergeInOrder ==
    \A j \in JobIds :
        (Exists(j) /\ RanToReturn(j) /\ MergeJob(Job(j)) /\ Undisturbed(j))
            => /\ Job(j).status = "COMPLETED"
               /\ Job(j).output_url # None
               /\ \E out \in {SubSeq(Job(j).output_url, 2, 4)} :
                     FileExists(files, out) =>
                        files[out].data.entries
                            = Matching(Job(j), Job(j).merge_order[1].items)

\* a compress job with an upload or more and a compression level
CompressJob(job) ==
    /\ job.tool_type = "file_compressor"
    /\ Len(job.uploaded_files) >= 1
    /\ job.compression_level # None

\* the name of the compressed copy of the job's i-th upload
CompressedName(job, i) == "compressed_" \o job.uploaded_files[i][3][1] \o ".pdf"

\* C19: once the runner has returned, undisturbed, for a compress job, the
\* job is COMPLETED; with one upload its output_url names the compressed PDF
\* itself, with two or more it names one zip that holds the compressed copy
\* of every upload.
C19_CompressOneOrZip ==
    \A j \in JobIds :
        (Exists(j) /\ RanToReturn(j) /\ CompressJob(Job(j)) /\ Undisturbed(j))
            => /\ Job(j).status = "COMPLETED"
               /\ Job(j).output_url # None
               /\ \E out \in {SubSeq(Job(j).output_url, 2, 4)} :
                     IF Len(Job(j).uploaded_files) = 1
                     THEN /\ NameStr(out[3]) = CompressedName(Job(j), 1)
                          /\ FileExists(files, out) => files[out].data.format = Some("PDF")
                     ELSE /\ out[3][2] = ".zip"
                          /\ FileExists(files, out) =>
                                /\ files[out].data.format = Some("ZIP")
                                /\ files[out].data.entries
                                     = [i \in 1..Len(Job(j).uploaded_files) |->
                                           CompressedName(Job(j), i)]

\* r is n / d rounded to a nearest integer
IsRounded(r, n, d) == 2 * n - d <= 2 * r * d /\ 2 * r * d <= 2 * n + d

\* C20: with width and height both given the image is resized to exactly
\* width x height; with only one of them given the other side is
\* round(source_other_side * given_side / source_given_side).
C20_ResizeRounds ==
    Called("resize") =>
        \E ow \in {call[1].args[1]}, oh \in {call[1].args[2]},
           w \in {call[1].args[3]}, h \in {call[1].args[4]},
           size \in {call[1].result[1]} :
            /\ (w # None /\ h # None) => size = <<w[1], h[1]>>
            /\ (w # None /\ h = None)
                  => size[1] = w[1] /\ IsRounded(size[2], oh * w[1], ow)
            /\ (w = None /\ h # None)
                  => size[2] = h[1] /\ IsRounded(size[1], ow * h[1], oh)

\* C21: a GET of the download view streams a file only if the job is in the
\* view's table, is COMPLETED, its output_url starts with MEDIA_URL and the
\* file it names is on disk, and then it streams that file; it answers 404
\* if the job's status is not COMPLETED or the file is missing, and 500 if
\* the output_url of a COMPLETED job does not start with MEDIA_URL.
C21_DownloadAnswers ==
    Called("download") =>
        \E row \in {Lookup(jobs, call[1].args[1], call[1].args[2])},
           r \in {call[1].result[1]} :
            /\ r.status = HTTP_200_OK <=> r.streamed # None
            /\ r.streamed # None
                  => /\ row # None
                     /\ row[1].status = "COMPLETED"
                     /\ row[1].output_url # None
                     /\ row[1].output_url[1] = MEDIA_URL
                     /\ <<MEDIA_URL>> \o r.streamed[1] = row[1].output_url
                     /\ FileExists(files, r.streamed[1])
            /\ (row # None /\ row[1].status # "COMPLETED")
                  => r.status = HTTP_404_NOT_FOUND
            /\ (row # None /\ row[1].status = "COMPLETED" /\ row[1].output_url # None)
                  => IF row[1].output_url[1] # MEDIA_URL
                     THEN r.status = HTTP_500_INTERNAL_SERVER_ERROR
                     ELSE ~FileExists(files, SubSeq(row[1].output_url, 2, 4))
                             => r.status = HTTP_404_NOT_FOUND

\* the output of a COMPLETED job has been streamed
C21_Witness ==
    /\ Called("download")
    /\ call[1].result[1].status = HTTP_200_OK
    /\ call[1].result[1].streamed # None
    /\ Job(call[1].args[2]).status = "COMPLETED"

\* C22: a run of the retention sweep removes a file only if the file was
\* modified more than RETENTION_DAYS before the sweep, leaves every other
\* file as it was, creates no file, and leaves every job record as it was.
C22_SweepRemovesOnlyOld ==
    [][cleanup_old_media =>
          /\ jobs' = jobs
          /\ DOMAIN files' \subseteq DOMAIN files
          /\ \A q \in DOMAIN files :
                files[q].age <= RETENTION_DAYS
                   => q \in DOMAIN files' /\ files'[q] = files[q]]_vars

\* the sweep has removed every upload of a job whose record is still there,
\* and no file left is older than the retention window
C22_Witness ==
    /\ \E j \in JobIds :
          /\ Exists(j)
          /\ Job(j).uploaded_files # <<>>
          /\ \A i \in 1..Len(Job(j).uploaded_files) :
                ~FileExists(files, Job(j).uploaded_files[i])
    /\ \A q \in DOMAIN files : files[q].age <= RETENTION_DAYS

\* C23: a run of the retention sweep, at whatever point of a job's
\* execution it comes, removes no uploaded file and no output file of a job
\* whose record is PENDING or PROCESSING.
C23_SweepSparesUnfinishedJobs ==
    [][cleanup_old_media =>
          \A j \in JobIds :
              (Exists(j) /\ Job(j).status \in {"PENDING", "PROCESSING"})
                 => /\ \A i \in 1..Len(Job(j).uploaded_files) :
                          FileExists(files, Job(j).uploaded_files[i])
                             => FileExists(files', Job(j).uploaded_files[i])
                    /\ OutputFiles(files, Job(j).kind, j) \subseteq DOMAIN files']_vars

\* C24: the files that the runs of two distinct jobs write are different
\* files: no path is written by both.
C24_OutputPathsDisjoint ==
    Called("outputs") => call[1].result[1][1] \cap call[1].result[1][2] = {}

\* two jobs of one tool, given files of the same name, have both written
\* an output
C24_Witness ==
    /\ Called("outputs")
    /\ call[1].args[1].req = call[1].args[2].req
    /\ call[1].args[1].id # call[1].args[2].id
    /\ call[1].result[1][1] # {}
    /\ call[1].result[1][2] # {}

\* C25: an invocation of the runner for a job, whether it ends in success
\* or in failure, leaves the record of every other job as it was.
C25_OtherRecordsUnchanged ==
    Called("invoke") =>
        \A i \in DOMAIN call[1].args.store :
            i # call[1].args.id => call[1].result[1].store[i] = call[1].args.store[i]

\* the runner has saved its own job while another job's record is in the table
C25_Witness ==
    /\ Called("invoke")
    /\ call[1].result[1].saved
    /\ call[1].result[1].store[call[1].args.id] # call[1].args.store[call[1].args.id]
    /\ \E i \in DOMAIN call[1].args.store :
          i # call[1].args.id /\ call[1].args.store[i] # None

\* C26: an invocation of the runner whose last save writes FAILED has not
\* assigned output_url: the record it saves carries the output_url the
\* record had when the invocation loaded it.
C26_FailedAssignsNoOutput ==
    (/\ Called("invoke")
     /\ call[1].result[1].saved
     /\ call[1].result[1].job[1].status = "FAILED")
        => /\ call[1].result[1].job[1].output_url
                 = call[1].args.store[call[1].args.id][1].output_url
           /\ call[1].result[1].store[call[1].args.id][1].output_url
                 = call[1].args.store[call[1].args.id][1].output_url

\* an invocation for a job without output location met a failure after a
\* part of its output was written, and has saved FAILED
C26_Witness ==
    /\ Called("invoke")
    /\ call[1].args.env.how = "partial"
    /\ call[1].result[1].saved
    /\ call[1].result[1].job[1].status = "FAILED"
    /\ call[1].args.store[call[1].args.id][1].output_url = None

\* the job's tool builds an archive: a split, a compression of more than
\* one file, a conversion to jpg
BuildsArchive(job) ==
    /\ job.kind = "pdf"
    /\ \/ job.tool_type = "pdf_splitter"
       \/ job.tool_type = "file_compressor" /\ Len(job.uploaded_files) > 1
       \/ /\ job.tool_type = "pdf_converter"
          /\ job.target_format # None
          /\ Upper(job.target_format[1]) = "JPG"

\* C27: when the run of an archive-building job has recorded FAILED, no
\* file that the run wrote is left on disk.
C27_FailedArchiveLeavesNothing ==
    \A j \in JobIds :
        (/\ RanToReturn(j)
         /\ Exists(j)
         /\ Last(j).saved
         /\ Job(j).status = "FAILED"
         /\ BuildsArchive(Job(j)))
            => Last(j).written = {}

\* the prefixes the output names are built from
OperationPrefixes == {"resized_", "compressed_", "converted_"}
ArchivePrefixes == {"split_", "compressed_", "converted_", "merged_"}

\* the base names of the job's uploaded files
BaseNames(job) == {job.uploaded_files[i][3][1] : i \in 1..Len(job.uploaded_files)}

\* C28: the output a COMPLETED job refers to is named after an uploaded
\* file: an archive is <tool>_<basename>.zip, any other output is
\* <prefix>_<basename>.<ext> with prefix resized, compressed or converted.
C28_OutputNamedAfterInput ==
    \A j \in JobIds :
        (Exists(j) /\ Job(j).status = "COMPLETED" /\ Job(j).output_url # None)
           => \E name \in {Job(j).output_url[4]} :
                 \E b \in BaseNames(Job(j)) :
                    \E p \in IF name[2] = ".zip" THEN ArchivePrefixes
                             ELSE OperationPrefixes :
                       name[1] = p \o b

\* C29: an image_converter job whose target_format is absent or none of
\* FORMAT_CHOICES is never COMPLETED by an invocation of the runner.
C29_ConvertNeedsTargetFormat ==
    (/\ Called("invoke")
     /\ call[1].args.req.tool_type = "image_converter"
     /\ \/ call[1].args.req.target_format = None
        \/ call[1].args.req.target_format[1] \notin FORMAT_CHOICES
     /\ call[1].result[1].found)
        => call[1].result[1].store[call[1].args.id][1].status # "COMPLETED"

\* C30: delete() of a job whose output_url is set leaves neither the file
\* output_url names nor the record, unless removing the file raised an
\* OSError, and then it still leaves no record; no other record and no
\* other file is touched.
C30_DeleteRemovesOutputAndRecord ==
    Called("delete") =>
        \E a \in {call[1].args}, r \in {call[1].result[1]} :
        \E path \in {SubSeq(a.store[a.id][1].output_url, 2,
                            Len(a.store[a.id][1].output_url))} :
            /\ r.store[a.id] = None
            /\ \A i \in DOMAIN a.store : i # a.id => r.store[i] = a.store[i]
            /\ (a.store[a.id][1].output_url # None /\ ~a.remove_raises)
                  => ~FileExists(r.fs, path)
            /\ \A q \in DOMAIN a.fs : q # path => q \in DOMAIN r.fs /\ r.fs[q] = a.fs[q]

\* removing the output file raised an OSError, the file is still there and
\* the record is gone
C30_Witness ==
    /\ Called("delete")
    /\ call[1].args.remove_raises
    /\ call[1].args.store[call[1].args.id][1].output_url # None
    /\ FileExists(call[1].result[1].fs,
                  SubSeq(call[1].args.store[call[1].args.id][1].output_url, 2, 4))
    /\ call[1].result[1].store[call[1].args.id] = None

\* C31: delete() of an uploaded-file record that holds a file, the storage
\* raising nothing, leaves no backing file, no directory if the file was the
\* last one in it, and no record.
C31_UploadDeleteRemovesAll ==
    (/\ Called("delete_upload")
     /\ call[1].args.name # None
     /\ ~call[1].args.storage_raises)
        => /\ ~FileExists(call[1].result[1].fs, call[1].args.path)
           /\ IsEmptyDir(call[1].result[1].fs, call[1].args.path)
                 => ~call[1].result[1].dir
           /\ ~call[1].result[1].row

\* C32: whenever a job id is handed to the queue, the job's record is in
\* the table in PENDING, every uploaded file of the job is stored, and the
\* POST is answered 202; a POST answered 400 or 403 hands nothing to the
\* queue.
C32_EnqueuedAfterPersisted ==
    [][/\ \A j \in JobIds :
             (task'[j] # task[j] \/ pending'[j] > pending[j])
                => /\ jobs'[j] # None
                   /\ jobs'[j][1].status = "PENDING"
                   /\ jobs'[j][1].uploaded_files # <<>>
                   /\ \A i \in 1..Len(jobs'[j][1].uploaded_files) :
                         FileExists(files', jobs'[j][1].uploaded_files[i])
                   /\ task'[j] # None /\ task'[j][1].job_id = j
                   /\ response' # None /\ response'[1].status = HTTP_202_ACCEPTED
       /\ (response' # None
           /\ response'[1].status \in {HTTP_400_BAD_REQUEST, HTTP_403_FORBIDDEN})
             => task' = task /\ pending' = pending /\ jobs' = jobs /\ files' = files]_vars

\* a POST has been answered 202 and the id of the job it added is in the queue
C32_Witness ==
    /\ response # None
    /\ Resp.status = HTTP_202_ACCEPTED
    /\ \E j \in Resp.created : task[j] # None /\ pending[j] = 1 /\ Exists(j)

\* the request's merge_order is a JSON array sent as a string, and each of
\* its items is the name of one of the request's two or more files
NamesItsFiles(req) ==
    /\ req.tool_type = "pdf_merger"
    /\ Len(req.files) >= 2
    /\ req.merge_order # None
    /\ req.merge_order[1].ok
    /\ req.merge_order[1].enc = 1
    /\ req.merge_order[1].items # <<>>
    /\ \A i \in 1..Len(req.merge_order[1].items) :
          \E k \in 1..Len(req.files) :
             req.merge_order[1].items[i] = req.files[k].base \o req.files[k].ext

\* C33: the first invocation of the runner for a merge job that the PDF
\* endpoint accepted, whose merge_order was sent as a JSON array naming its
\* files, met by no failure of its surroundings, leaves the job COMPLETED.
C33_MergeOrderRoundTrip ==
    (/\ Called("invoke")
     /\ NamesItsFiles(call[1].args.req)
     /\ ViewAccepts(call[1].args.req)
     /\ call[1].args.env = NoFailure
     /\ call[1].args.store[call[1].args.id] # None
     /\ call[1].args.store[call[1].args.id][1].status = "PENDING")
        => call[1].result[1].store[call[1].args.id][1].status = "COMPLETED"

\* C34: once the runner has returned, undisturbed, for a compress job with
\* two or more uploads, each an existing PDF, the job is COMPLETED and its
\* archive, while it is there, holds as many entries as the job has
\* uploads, also when two uploads have the same file name.
C34_CompressArchivePerInput ==
    \A j \in JobIds :
        (/\ Exists(j) /\ RanToReturn(j) /\ CompressJob(Job(j)) /\ Undisturbed(j)
         /\ Len(Job(j).uploaded_files) >= 2
         /\ \A i \in 1..Len(Job(j).uploaded_files) :
               /\ Job(j).uploaded_files[i][3][2] = ".pdf"
               /\ files[Job(j).uploaded_files[i]].data.pages > 0)
            => /\ Job(j).status = "COMPLETED"
               /\ Job(j).output_url # None
               /\ \E out \in {SubSeq(Job(j).output_url, 2, 4)} :
                     FileExists(files, out) =>
                        Len(files[out].data.entries) = Len(Job(j).uploaded_files)

\* C35: an invocation of the runner that leaves a split job COMPLETED has
\* written an archive with one PDF or more in it.
C35_SplitArchiveNotEmpty ==
    (/\ Called("invoke")
     /\ call[1].args.req.tool_type = "pdf_splitter"
     /\ call[1].result[1].saved
     /\ call[1].result[1].job[1].status = "COMPLETED")
        => \E out \in {SubSeq(call[1].result[1].job[1].output_url, 2, 4)} :
              /\ FileExists(call[1].result[1].fs, out)
              /\ call[1].result[1].fs[out].data.entries # <<>>

\* C36: when the first invocation of the runner for a job ends in
\* COMPLETED, the job's output directory holds one file only, the one that
\* output_url names.
C36_OnlyTheArtifactIsLeft ==
    (/\ Called("invoke")
     /\ call[1].args.store[call[1].args.id] # None
     /\ call[1].args.store[call[1].args.id][1].status = "PENDING"
     /\ call[1].result[1].saved
     /\ call[1].result[1].job[1].status = "COMPLETED")
        => OutputFiles(call[1].result[1].fs, call[1].args.req.kind, call[1].args.id)
              = {SubSeq(call[1].result[1].job[1].output_url, 2, 4)}

\* a first invocation has COMPLETED a job whose tool writes one file per
\* interval, input or page before it builds the archive
C36_Witness ==
    /\ Called("invoke")
    /\ call[1].args.store[call[1].args.id] # None
    /\ call[1].args.store[call[1].args.id][1].status = "PENDING"
    /\ call[1].result[1].saved
    /\ call[1].result[1].job[1].status = "COMPLETED"
    /\ call[1].result[1].job[1].output_url[4][2] = ".zip"
    /\ \E out \in {SubSeq(call[1].result[1].job[1].output_url, 2, 4)} :
          Len(call[1].result[1].fs[out].data.entries) >= 2

\* C37: the record of a job that was submitted and then deleted stays
\* deleted: no step, and so no save of a runner invocation that was in
\* progress when the record was deleted, brings it back.
C37_DeletedStaysDeleted ==
    [][\A j \in JobIds : (task[j] # None /\ ~Exists(j)) => jobs'[j] = None]_vars

\* C38: every file that an invocation of the runner for job j has written
\* or removed lies in the processed-output directory of j; an uploaded file
\* is neither written nor removed.
C38_RunnerTouchesOwnOutputOnly ==
    \A j \in JobIds :
        (Returned(j) /\ ~Last(j).abandoned)
            => \A q \in Last(j).written \cup Last(j).removed :
                  /\ q[1] \in {ProcessedDir("image"), ProcessedDir("pdf")}
                  /\ q[2] = j
                  /\ Exists(j) => q[1] = ProcessedDir(Job(j).kind)
                  /\ \A k \in JobIds :
                        Exists(k) => \A i \in 1..Len(Job(k).uploaded_files) :
                                        q # Job(k).uploaded_files[i]

\* a run has failed after writing a part of its output, and the job's
\* uploads are in place
C38_Witness ==
    \E j \in JobIds :
        /\ Returned(j) /\ Exists(j)
        /\ Last(j).written # {}
        /\ Job(j).status = "FAILED"
        /\ \A i \in 1..Len(Job(j).uploaded_files) :
              FileExists(files, Job(j).uploaded_files[i])

\* C39: a POST to one endpoint leaves the session's counts of the other
\* endpoint as they were, and an unauthenticated POST whose own count for
\* today is below the limit is not refused, whatever the other count is.
C39_CountersIndependent ==
    [][(response' # response /\ response' # None)
          => LET post == response'[1]
                 other == IF post.req.kind = "image" THEN "pdf" ELSE "image"
             IN /\ \A s \in Sessions :
                      Get(session'[s], SessionKey(other), <<>>)
                          = Get(session[s], SessionKey(other), <<>>)
                /\ (~post.is_authenticated /\ post.before < UNAUTH_CONVERSION_LIMIT)
                      => /\ post.status # HTTP_403_FORBIDDEN
                         /\ post.after = post.before + 1]_vars

\* one session without a login has used its whole allowance of today on
\* both endpoints, the last POST being let through
C39_Witness ==
    /\ response # None
    /\ ~Resp.is_authenticated
    /\ Resp.status # HTTP_403_FORBIDDEN
    /\ Counted(session[Resp.session], "image") = UNAUTH_CONVERSION_LIMIT
    /\ Counted(session[Resp.session], "pdf") = UNAUTH_CONVERSION_LIMIT

\* C40: two invocations of the image runner on the same source with the
\* same quality, width, height and target_format and different tool_type
\* end in the same status, with an output of the same format, size and
\* file name.
C40_ToolTypeIgnored ==
    Called("process_image_task")
        => \A s, t \in DOMAIN call[1].result[1] :
              call[1].result[1][s] = call[1].result[1][t]

\* a conversion and a resizing of one upload with a width and a target
\* format have both ended COMPLETED
C40_Witness ==
    /\ Called("process_image_task")
    /\ call[1].args.tool_types = {"image_converter", "image_resizer"}
    /\ call[1].args.width # None
    /\ call[1].args.target_format # None
    /\ \A t \in call[1].args.tool_types :
          /\ call[1].result[1][t].status = "COMPLETED"
          /\ call[1].result[1][t].outputs # {}
====
